---- MODULE Spec2Model ----
(***************************************************************************)
(* Model of the Infinibay installer (install.py and lib/*.py).             *)
(*                                                                         *)
(* The installer is one thread of control.  Its state is the position in   *)
(* the code (pc), the pending exception (exc), the exit code, and the      *)
(* state of the host it provisions.  Every external command is a blocking  *)
(* point whose outcome is chosen by the environment: "ok", a non-zero exit *)
(* ("exit", or "auth"/"perm" when the tool reports an authentication or    *)
(* permission failure), a "timeout", or an operator interrupt ("int").     *)
(* History variables (phaseLog, muts, spawned, intr, retry ...) record     *)
(* what the run did so that the properties can speak about it.             *)
(*                                                                         *)
(* Argument parsing, OS detection and the printing of log lines are not    *)
(* modelled: the parsed arguments and the detected OS are inputs (cfg),    *)
(* and a log call changes no state.                                        *)
(***************************************************************************)
EXTENDS Integers, Sequences, FiniteSets, TLC

VARIABLES
    cfg,        \* the invocation: entry point, flags, environment
    pc,         \* position in the code
    exit_code,  \* process exit code, NoExit while running
    exc,        \* exception in flight / that ended the call
    phaseLog,   \* phase functions entered, in order
    phaseRet,   \* phase functions that returned normally
    opsIn,      \* phases in which a command or file operation was executed
    muts,       \* kinds of mutating operations executed
    spawned,    \* TRUE once an external process was spawned
    intr,       \* [seen: an operator interrupt was delivered,
                \*  after: a command was executed after it]
    allOk,      \* no command failed, timed out or was interrupted so far
    retry,      \* bookkeeping of the retry loop entered last
    prompts,    \* recovery prompts shown so far
    idx,        \* loop index of the for-loop being executed
    host,       \* state of the target host
    hist        \* what this run did to build nodes and resources

vars == <<cfg, pc, exit_code, exc, phaseLog, phaseRet, opsIn, muts, spawned,
          intr, allOk, retry, prompts, idx, host, hist>>

----------------------------------------------------------------------------
(* Bounds *)

\* largest number of consecutive failures the environment plans for one
\* retried operation (must exceed maxAttempts so that the re-attempt after
\* the recovery prompt can fail too)
MaxFails == 4

----------------------------------------------------------------------------
(* Program constants *)

NoExit == -1

MAX_CONNECTION_RETRIES == 3
RETRY_DELAY_SECONDS == 3
MAX_CLONE_RETRIES == 3
CLONE_RETRY_DELAY_SECONDS == 5
UPDATE_MAX_RETRIES == 3
UPDATE_RETRY_DELAY == 5
INSTALL_MAX_RETRIES == 2
INSTALL_RETRY_DELAY == 10

Phases == {"deps", "db", "build", "svc"}
PhaseOrder == <<"deps", "db", "build", "svc">>

Entries == {"main", "run_system_checks", "setup_database",
            "clone_and_build", "create_services"}

REQUIRED_COMMANDS == {"node", "npm", "psql", "redis-cli", "qemu-system-x86_64"}
MINGW_GCC == "x86_64-w64-mingw32-gcc"
RustCommands == {"rustup", "rustc", "cargo"}
PackageCommands == REQUIRED_COMMANDS \cup {MINGW_GCC}
AllCommands == PackageCommands \cup RustCommands

\* outcomes of one external command
FailKinds == {"exit", "timeout", "auth"}
CmdOutcomes == {"ok", "exit", "timeout", "int"}

\* CalledProcessError is raised by run_command(check=True) on any non-zero
\* exit, whatever the tool printed
IsCalledProcessError(o) == o \in {"exit", "auth", "perm"}

----------------------------------------------------------------------------
(* Bookkeeping shared by all steps *)

\* a step executed a command or file operation in phase p, of mutation
\* kinds m, spawning a process iff sp, with outcome o
Effect(p, m, sp, o) ==
    /\ spawned' = (spawned \/ sp)
    /\ opsIn' = opsIn \cup {p}
    /\ muts' = muts \cup m
    /\ intr' = [seen |-> intr.seen \/ (o = "int"),
                after |-> intr.after \/ intr.seen]
    /\ allOk' = (allOk /\ o = "ok")

Ran(p, m, o) == Effect(p, m, TRUE, o)

NoRun == UNCHANGED <<spawned, opsIn, muts, intr, allOk>>

Goto(l) == pc' = l /\ exc' = exc

\* a variant in which a failing operation of any phase opens the guide
RaiseOpensGuide(k) ==
    /\ exc' = exc
    /\ pc' = "guide"

\* an exception leaves the phase function: in main it reaches the handlers
\* of main, in a direct call of a phase function it reaches the caller
Raise(k) ==
    /\ exc' = k
    /\ pc' = IF cfg.entry = "main" THEN "main_except" ELSE "done"

\* the environment's plan for a retried operation: its first k calls fail
\* with the given kind, the following ones succeed
Plans == {[k |-> 0, kind |-> "exit"]} \cup
         [k : 1..MaxFails, kind : FailKinds]

NewRetry(op, plan) ==
    [op |-> op, k |-> plan.k, kind |-> plan.kind, calls |-> 0,
     sleeps |-> 0, slept |-> 0, prompted |-> 0, result |-> "run",
     probe |-> "none", live |-> "none", sql |-> "none"]

NoRetry == [op |-> "none", k |-> 0, kind |-> "exit", calls |-> 0,
            sleeps |-> 0, slept |-> 0, prompted |-> 0, result |-> "run",
            probe |-> "none", live |-> "none", sql |-> "none"]

\* outcome of the next call of the retried operation
PlannedOutcome(r) == IF r.calls + 1 <= r.k THEN r.kind ELSE "ok"

Called(r, res) == [r EXCEPT !.calls = @ + 1, !.result = res]
Slept(r, secs) == [r EXCEPT !.sleeps = @ + 1, !.slept = @ + secs]

----------------------------------------------------------------------------
(* install.py: main *)

\* install.py:216-233, the exit code main returns for an exception
MainExitCodeBroken(e) == IF e = "interrupt" THEN 130 ELSE 0
MainExitCode(e) ==
    CASE e = "interrupt" -> 130
      [] e = "error" -> 1
      [] OTHER -> 0

\* install.py:190-202, the phase main calls after phase p returned; the
\* summary follows the return of create_services
NextPhaseSkipsDatabase(p) ==
    CASE p = "deps" -> "build"
      [] p = "db" -> "build"
      [] p = "build" -> "svc"
      [] OTHER -> "summary"
NextPhase(p) ==
    CASE p = "deps" -> "db"
      [] p = "db" -> "build"
      [] p = "build" -> "svc"
      [] OTHER -> "summary"

\* a phase function is entered
Enter(p) == phaseLog' = Append(phaseLog, p)

\* a phase function returns normally
PhaseReturn(p) ==
    /\ phaseRet' = phaseRet \cup {p}
    /\ exc' = exc
    /\ pc' = IF cfg.entry = "main" THEN NextPhase(p) ELSE "done"

\* install.py:143-176: arguments, banner, root check, OS detection
main_start ==
    /\ pc = "main"
    /\ IF ~cfg.is_root \/ ~cfg.os_ok
          THEN /\ exit_code' = 1          \* sys.exit(1)
               /\ pc' = "done"
          ELSE /\ exit_code' = exit_code
               /\ pc' = "ctx"
    /\ NoRun
    /\ UNCHANGED <<cfg, hist, exc, phaseLog, phaseRet, retry, prompts, idx,
                   host>>

\* utils.py:190-240: the socket method, then `ip addr show`, then the
\* fallback address; TRUE iff the `ip` process is spawned
detect_host_ip_spawns(c) == ~c.sock_ok

\* config.py:223-268 with utils.py:190-240
create_context_from_args ==
    /\ pc = "ctx"
    /\ IF ~cfg.host_ip_arg /\ detect_host_ip_spawns(cfg)
          THEN \E o \in {"ok", "exit", "int"} :
                /\ Ran("pre", {}, o)
                /\ IF o = "int" THEN Raise("interrupt") ELSE Goto("dispatch")
          ELSE NoRun /\ Goto("dispatch")
    /\ UNCHANGED <<cfg, hist, exit_code, phaseLog, phaseRet, retry, prompts,
                   idx, host>>

\* install.py:182-193: configuration summary, then the dry-run summary and
\* return 0, or the first phase
main_dispatch ==
    /\ pc = "dispatch"
    /\ IF cfg.dry_run
          THEN /\ exit_code' = 0
               /\ pc' = "done"
          ELSE /\ exit_code' = exit_code
               /\ pc' = "deps"
    /\ NoRun
    /\ UNCHANGED <<cfg, hist, exc, phaseLog, phaseRet, retry, prompts, idx,
                   host>>

\* install.py:216-233: the handlers of main
main_except ==
    /\ pc = "main_except"
    /\ exit_code' = MainExitCode(exc)
    /\ pc' = "done"
    /\ NoRun
    /\ UNCHANGED <<cfg, hist, exc, phaseLog, phaseRet, retry, prompts, idx,
                   host>>

----------------------------------------------------------------------------
(* lib/system_check.py: phase Dependencies *)

\* system_check.py:506-529
run_system_checks ==
    /\ pc = "deps"
    /\ Enter("deps")
    /\ Goto("upd")
    /\ NoRun
    /\ UNCHANGED <<cfg, hist, exit_code, phaseRet, retry, prompts, idx,
                   host>>

PackageManager(os) == IF os = "ubuntu" THEN "apt" ELSE "dnf"

\* system_check.py:82-100: what one pass of the loop does with outcome o
\* of attempt number attempt (from 0)
update_cache_step(pm, o, attempt) ==
    CASE o = "int" -> "int"
      [] o = "timeout" -> "raise"
      [] pm = "dnf" -> "break"               \* check=False
      [] o = "ok" -> "break"
      [] attempt < UPDATE_MAX_RETRIES - 1 -> "sleep"
      [] OTHER -> "raise"

\* system_check.py:72-81
update_package_cache ==
    /\ pc = "upd"
    /\ IF cfg.dry_run
          THEN Goto("inst") /\ retry' = retry
          ELSE /\ \E plan \in Plans :
                     retry' = NewRetry("update_package_cache", plan)
               /\ Goto("upd_call")
    /\ NoRun
    /\ UNCHANGED <<cfg, hist, exit_code, phaseLog, phaseRet, prompts, idx,
                   host>>

\* system_check.py:82-102
update_package_cache_call ==
    /\ pc = "upd_call"
    /\ \E i \in BOOLEAN :
         LET o == IF i THEN "int" ELSE PlannedOutcome(retry)
             s == update_cache_step(PackageManager(cfg.os_type), o,
                                    retry.calls)
         IN  /\ Ran("deps", {}, o)
             /\ CASE s = "break" -> retry' = Called(retry, "ok")
                                    /\ Goto("inst")
                  [] s = "sleep" -> retry' = Called(retry, "run")
                                    /\ Goto("upd_sleep")
                  [] s = "raise" -> retry' = Called(retry, "raise")
                                    /\ Raise("error")
                  [] OTHER -> retry' = Called(retry, "int")
                              /\ Raise("interrupt")
    /\ UNCHANGED <<cfg, hist, exit_code, phaseLog, phaseRet, prompts, idx,
                   host>>

\* a time.sleep between two attempts; an interrupt can arrive in it
RetrySleep(secs, back) ==
    /\ \E i \in BOOLEAN :
         IF i
            THEN /\ retry' = [retry EXCEPT !.result = "int"]
                 /\ intr' = [intr EXCEPT !.seen = TRUE]
                 /\ allOk' = FALSE
                 /\ Raise("interrupt")
            ELSE /\ retry' = Slept(retry, secs)
                 /\ intr' = intr
                 /\ allOk' = allOk
                 /\ Goto(back)
    /\ UNCHANGED <<cfg, hist, exit_code, phaseLog, phaseRet, opsIn, muts,
                   spawned, prompts, idx, host>>

\* system_check.py:96
update_package_cache_sleep ==
    /\ pc = "upd_sleep"
    /\ RetrySleep(UPDATE_RETRY_DELAY, "upd_call")

\* system_check.py:122-149
install_step(o, attempt) ==
    CASE o = "int" -> "int"
      [] o = "timeout" -> "raise"
      [] o = "ok" -> "break"
      [] attempt < INSTALL_MAX_RETRIES -> "sleep"
      [] OTHER -> "raise"

\* system_check.py:105-121
install_packages ==
    /\ pc = "inst"
    /\ IF cfg.dry_run
          THEN Goto("verify") /\ retry' = retry
          ELSE /\ \E plan \in Plans :
                     retry' = NewRetry("install_packages", plan)
               /\ Goto("inst_call")
    /\ NoRun
    /\ UNCHANGED <<cfg, hist, exit_code, phaseLog, phaseRet, prompts, idx,
                   host>>

\* the commands the host has after a successful package installation
Installed(h, cs) == [h EXCEPT !.cmds = @ \cup (cs \ {h.broken})]

\* system_check.py:122-151
install_packages_call ==
    /\ pc = "inst_call"
    /\ \E i \in BOOLEAN :
         LET o == IF i THEN "int" ELSE PlannedOutcome(retry)
             s == install_step(o, retry.calls)
         IN  /\ Ran("deps", {"pkg_install"}, o)
             /\ CASE s = "break" -> /\ retry' = Called(retry, "ok")
                                    /\ host' = Installed(host, PackageCommands)
                                    /\ Goto("verify")
                  [] s = "sleep" -> /\ retry' = Called(retry, "run")
                                    /\ host' = host
                                    /\ Goto("inst_sleep")
                  [] s = "raise" -> /\ retry' = Called(retry, "raise")
                                    /\ host' = host
                                    /\ Raise("error")
                  [] OTHER -> /\ retry' = Called(retry, "int")
                              /\ host' = host
                              /\ Raise("interrupt")
    /\ UNCHANGED <<cfg, hist, exit_code, phaseLog, phaseRet, prompts, idx>>

\* system_check.py:137
install_packages_sleep ==
    /\ pc = "inst_sleep"
    /\ RetrySleep(INSTALL_RETRY_DELAY, "inst_call")

\* a variant that reports every command as present
command_existsAlways(h, c) == TRUE

\* utils.py:104-122: `which`, any exception read as "not found"
command_exists(h, c) == c \in h.cmds

\* system_check.py:154-190: no dry-run branch; `which` and `--version` are
\* run for every required command
verify_installations ==
    /\ pc = "verify"
    /\ \E i \in BOOLEAN :
         LET found == \A c \in REQUIRED_COMMANDS : command_exists(host, c)
             o == IF i THEN "int" ELSE IF found THEN "ok" ELSE "exit"
         IN  /\ Ran("deps", {}, o)
             /\ IF i THEN Raise("interrupt")
                ELSE IF found
                        THEN Goto("initpg")
                        ELSE Raise("error")
    /\ UNCHANGED <<cfg, hist, exit_code, phaseLog, phaseRet, retry, prompts,
                   idx, host>>

\* system_check.py:193-218
initialize_postgresql ==
    /\ pc = "initpg"
    /\ IF cfg.os_type # "fedora" \/ host.pgInit \/ cfg.dry_run
          THEN NoRun /\ Goto("sysd") /\ host' = host
          ELSE \E o \in CmdOutcomes :
                /\ Ran("deps", {"pg_initdb"}, o)
                /\ host' = [host EXCEPT !.pgInit = @ \/ (o = "ok")]
                /\ CASE o = "int" -> Raise("interrupt")
                     [] o = "timeout" -> Raise("error")
                     [] OTHER -> Goto("sysd")   \* a failure is a warning
    /\ UNCHANGED <<cfg, hist, exit_code, phaseLog, phaseRet, retry, prompts,
                   idx>>

SystemServices == <<"postgresql", "redis">>

\* system_check.py:221-232 and 255-257
enable_and_start_services ==
    /\ pc = "sysd"
    /\ IF cfg.dry_run
          THEN Goto("rustup") /\ idx' = idx
          ELSE Goto("sysd_try") /\ idx' = 1
    /\ NoRun
    /\ UNCHANGED <<cfg, hist, exit_code, phaseLog, phaseRet, retry, prompts,
                   host>>

\* where the loop over the services continues
NextSystemService(i) ==
    IF i < Len(SystemServices) THEN "sysd_try"
    ELSE IF cfg.sudo_user THEN "usermod" ELSE "rustup"

\* system_check.py:234-247: enable, start, is-active
enable_and_start_services_try ==
    /\ pc = "sysd_try"
    /\ \E o \in CmdOutcomes :
         /\ Ran("deps", {"service_enable", "service_start"}, o)
         /\ CASE o = "int" -> Raise("interrupt") /\ idx' = idx
              [] o = "timeout" -> Raise("error") /\ idx' = idx
              [] o = "exit" -> Goto("sysd_fallback") /\ idx' = idx
              [] OTHER -> Goto(NextSystemService(idx)) /\ idx' = idx + 1
    /\ UNCHANGED <<cfg, hist, exit_code, phaseLog, phaseRet, retry, prompts,
                   host>>

\* system_check.py:248-253: is-active again, inside a bare `except:` that
\* catches every exception, KeyboardInterrupt included
enable_and_start_services_fallback ==
    /\ pc = "sysd_fallback"
    /\ \E o \in CmdOutcomes :
         /\ Ran("deps", {}, o)
         /\ Goto(NextSystemService(idx))
         /\ idx' = idx + 1
    /\ UNCHANGED <<cfg, hist, exit_code, phaseLog, phaseRet, retry, prompts,
                   host>>

\* system_check.py:255-271: usermod -aG kvm
enable_and_start_services_usermod ==
    /\ pc = "usermod"
    /\ \E o \in CmdOutcomes :
         /\ Ran("deps", {"usermod"}, o)
         /\ CASE o = "int" -> Raise("interrupt")
              [] o = "timeout" -> Raise("error")
              [] OTHER -> Goto("rustup")
    /\ UNCHANGED <<cfg, hist, exit_code, phaseLog, phaseRet, retry, prompts,
                   idx, host>>

\* system_check.py:310-357: the checks before the installation proper
install_rustup ==
    /\ pc = "rustup"
    /\ \E i \in BOOLEAN :
         LET o == IF i THEN "int"
                  ELSE IF command_exists(host, "rustup") THEN "ok"
                  ELSE "exit"
         IN  /\ Ran("deps", {}, o)                  \* `which rustup` ...
             /\ IF i THEN Raise("interrupt")
                ELSE IF command_exists(host, "rustup")
                  THEN Goto(IF cfg.dry_run THEN "mingw" ELSE "rustup_update")
                ELSE IF cfg.dry_run
                  THEN Goto("mingw")
                ELSE IF command_exists(host, "cargo")
                        \/ command_exists(host, "rustc")
                  THEN Goto("rustup_remove")
                ELSE Goto("rustup_install")
    /\ UNCHANGED <<cfg, hist, exit_code, phaseLog, phaseRet, retry, prompts,
                   idx, host>>

\* system_check.py:316-337: self update, update stable, default stable
install_rustup_update ==
    /\ pc = "rustup_update"
    /\ \E o \in CmdOutcomes :
         /\ Ran("deps", {"rustup_update"}, o)
         /\ CASE o = "int" -> Raise("interrupt")
              [] o = "timeout" -> Raise("error")
              [] OTHER -> Goto("mingw")         \* a failure is a warning
    /\ UNCHANGED <<cfg, hist, exit_code, phaseLog, phaseRet, retry, prompts,
                   idx, host>>

\* system_check.py:340-351: remove the distribution's rustc and cargo
install_rustup_remove ==
    /\ pc = "rustup_remove"
    /\ \E o \in CmdOutcomes :
         /\ Ran("deps", {"pkg_remove"}, o)
         /\ host' = IF o = "ok"
                       THEN [host EXCEPT !.cmds = @ \ {"rustc", "cargo"}]
                       ELSE host
         /\ IF o = "int" THEN Raise("interrupt") ELSE Goto("rustup_install")
    /\ UNCHANGED <<cfg, hist, exit_code, phaseLog, phaseRet, retry, prompts,
                   idx>>

\* system_check.py:359-392: the rustup installer; without SUDO_USER
\* run_command is called with a keyword it does not have (TypeError)
install_rustup_install ==
    /\ pc = "rustup_install"
    /\ IF ~cfg.sudo_user
          THEN NoRun /\ Raise("error") /\ host' = host
          ELSE \E o \in CmdOutcomes :
                /\ Ran("deps", {"rustup_install"}, o)
                /\ host' = IF o = "ok" THEN Installed(host, RustCommands)
                                       ELSE host
                /\ CASE o = "int" -> Raise("interrupt")
                     [] o = "ok" /\ command_exists(host', "rustup")
                          -> Goto("rustup_toolchain")
                     [] OTHER -> Raise("error")
    /\ UNCHANGED <<cfg, hist, exit_code, phaseLog, phaseRet, retry, prompts,
                   idx>>

\* system_check.py:394-433: toolchain install, default, verification
install_rustup_toolchain ==
    /\ pc = "rustup_toolchain"
    /\ \E o \in CmdOutcomes :
         /\ Ran("deps", {"rustup_toolchain"}, o)
         /\ CASE o = "int" -> Raise("interrupt")
              [] o = "ok" /\ \A c \in RustCommands : command_exists(host, c)
                   -> Goto("mingw")
              [] OTHER -> Raise("error")
    /\ UNCHANGED <<cfg, hist, exit_code, phaseLog, phaseRet, retry, prompts,
                   idx, host>>

\* system_check.py:274-295: no dry-run branch
verify_mingw_installation ==
    /\ pc = "mingw"
    /\ \E i \in BOOLEAN :
         LET o == IF i THEN "int"
                  ELSE IF command_exists(host, MINGW_GCC) THEN "ok"
                  ELSE "exit"
         IN  /\ Ran("deps", {}, o)
             /\ IF i THEN Raise("interrupt")
                ELSE IF command_exists(host, MINGW_GCC)
                        THEN Goto("kvm")
                        ELSE Raise("error")
    /\ UNCHANGED <<cfg, hist, exit_code, phaseLog, phaseRet, retry, prompts,
                   idx, host>>

\* system_check.py:446-483 called at 561-567: non-critical, every
\* Exception is a warning; then the phase returns
check_kvm_support ==
    /\ pc = "kvm"
    /\ \E o \in CmdOutcomes :
         /\ Ran("deps", {}, o)
         /\ IF o = "int"
               THEN Raise("interrupt") /\ phaseRet' = phaseRet
               ELSE PhaseReturn("deps")
    /\ UNCHANGED <<cfg, hist, exit_code, phaseLog, retry, prompts, idx,
                   host>>

----------------------------------------------------------------------------
(* lib/database.py: phase Database *)

CreateOutcomes == {"ok", "exit", "perm", "timeout", "int"}
\* database.py:357-361: what input() does: on a terminal the operator
\* presses Enter, Ctrl+C or Ctrl+D; at end of file it raises EOFError; on
\* an open stdin without a writer it does not return
PromptAnswers(stdin) ==
    CASE stdin = "tty" -> {"enter", "int", "eof"}
      [] stdin = "closed" -> {"eof"}
      [] OTHER -> {}

\* database.py:452-464: what one pass of a connectivity loop does when the
\* attempt numbered attempt (from 0) succeeded or not
connect_loop_stepOneMore(ok, attempt) ==
    CASE ok -> "break"
      [] attempt < MAX_CONNECTION_RETRIES -> "sleep"
      [] OTHER -> "exhausted"
connect_loop_step(ok, attempt) ==
    CASE ok -> "break"
      [] attempt < MAX_CONNECTION_RETRIES - 1 -> "sleep"
      [] OTHER -> "exhausted"

\* a stage of setup_database whose command reported success
Passed(stage, o) ==
    hist' = IF o = "ok" THEN [hist EXCEPT !.passed = @ \cup {stage}]
                        ELSE hist

\* database.py:422-450: there is no dry-run branch in front of the
\* service check
setup_database ==
    /\ pc = "db"
    /\ Enter("db")
    /\ \E plan \in Plans : retry' = NewRetry("pg_service", plan)
    /\ Goto("svc_call")
    /\ NoRun
    /\ UNCHANGED <<cfg, hist, exit_code, phaseRet, prompts, idx, host>>

\* database.py:452-466: `psql -c 'SELECT version();'` as postgres; a
\* non-zero exit and any Exception both count as a failed attempt
setup_database_service_check ==
    /\ pc = "svc_call"
    /\ \E i \in BOOLEAN :
         LET o == IF i THEN "int" ELSE PlannedOutcome(retry)
             s == connect_loop_step(o = "ok", retry.calls)
         IN  /\ Passed("pg_service", o)
             /\ Ran("db", {}, o)
             /\ CASE o = "int" -> retry' = Called(retry, "int")
                                  /\ Raise("interrupt")
                  [] s = "break" -> retry' = Called(retry, "ok")
                                    /\ Goto("mkuser")
                  [] s = "sleep" -> retry' = Called(retry, "run")
                                    /\ Goto("svc_sleep")
                  [] OTHER -> retry' = Called(retry, "prompt")
                              /\ Goto("guide")
    /\ UNCHANGED <<cfg, exit_code, phaseLog, phaseRet, prompts, idx, host>>

\* database.py:462-464
setup_database_service_sleep ==
    /\ pc = "svc_sleep"
    /\ RetrySleep(RETRY_DELAY_SECONDS, "svc_call")

\* database.py:271-355: the runbook; `SHOW hba_file` runs inside a bare
\* `except:` that catches every exception, KeyboardInterrupt included
interactive_troubleshooting_guide ==
    /\ pc = "guide"
    /\ \E o \in CmdOutcomes :
         /\ Ran("db", {}, o)
         /\ Goto("prompt")
    /\ UNCHANGED <<cfg, hist, exit_code, phaseLog, phaseRet, retry, prompts,
                   idx, host>>

\* database.py:466-472, 474-483 and 501-506: where setup_database
\* continues after the guide returned: one more call of the operation,
\* outside the loop that led to the guide
AfterGuideLoopsAgain(op) ==
    CASE op = "pg_service" -> "svc_call"
      [] op = "create_user_db" -> "mkuser"
      [] OTHER -> "conn_call"
AfterGuide(op) ==
    CASE op = "pg_service" -> "svc_retry"
      [] op = "create_user_db" -> "mkuser2"
      [] OTHER -> "conn_retry"

\* what the operator may have done on the host while the prompt waited
OperatorFixes(h) ==
    {h, [h EXCEPT !.role = "correct"],
        [h EXCEPT !.role = "correct", !.db = "correct"]}

\* database.py:357-361: input(); Enter returns, Ctrl+C raises
\* KeyboardInterrupt, a closed stdin raises EOFError
interactive_troubleshooting_prompt ==
    /\ pc = "prompt"
    /\ prompts' = prompts + 1
    /\ \E a \in PromptAnswers(cfg.stdin) :
         CASE a = "enter" -> /\ \E h \in OperatorFixes(host) : host' = h
                             /\ intr' = intr
                             /\ Goto(AfterGuide(retry.op))
           [] a = "int" -> /\ host' = host
                           /\ intr' = [intr EXCEPT !.seen = TRUE]
                           /\ Raise("interrupt")
           [] OTHER -> /\ host' = host
                       /\ intr' = intr
                       /\ Raise("error")
    /\ retry' = [retry EXCEPT !.prompted = @ + 1]
    /\ allOk' = FALSE
    /\ UNCHANGED <<cfg, hist, exit_code, phaseLog, phaseRet, opsIn, muts,
                   spawned, idx>>

\* database.py:469-472: the single re-attempt of the service check
setup_database_service_retry ==
    /\ pc = "svc_retry"
    /\ \E i \in BOOLEAN :
         LET o == IF i THEN "int" ELSE PlannedOutcome(retry)
         IN  /\ Passed("pg_service", o)
             /\ Ran("db", {}, o)
             /\ CASE o = "int" -> retry' = Called(retry, "int")
                                  /\ Raise("interrupt")
                  [] o = "ok" -> retry' = Called(retry, "recovered")
                                 /\ Goto("mkuser")
                  [] OTHER -> retry' = Called(retry, "raise")
                              /\ Raise("error")
    /\ UNCHANGED <<cfg, exit_code, phaseLog, phaseRet, prompts, idx, host>>

\* database.py:31-44 and 47-60: a variant that answers from what the call
\* before the guide was told
check_existsStale(probe, state) ==
    probe = "ok" /\ state # "missing" /\ retry.prompted = 0

\* database.py:31-44 and 47-60: the existence probe; any Exception reads
\* as "does not exist"
check_exists(probe, state) == probe = "ok" /\ state # "missing"

\* database.py:474-483: an Exception in the first pass opens the guide,
\* in the pass after the guide it leaves setup_database; the kind of the
\* failure (the stderr of psql) is kept in retry.kind
CreateFailed(at, o, r) ==
    IF at \in {"mkuser", "mkdb"}
       THEN /\ retry' = [r EXCEPT !.result = "prompt", !.kind = o]
            /\ Goto("guide")
       ELSE /\ retry' = [r EXCEPT !.result = "raise", !.kind = o]
            /\ Raise("error")

\* the outcome of the existence probe, the state it looked at and the
\* statement chosen from it, kept with the operation
Decided(r, probe, live, sql) ==
    [r EXCEPT !.probe = probe, !.live = live, !.sql = sql]

\* database.py:135-142: the statement create_database_user sends;
\* database.py:180-187: the one create_database sends
role_statementRecreates(exists) ==
    IF exists THEN "drop_role" ELSE "create_role"
role_statement(exists) == IF exists THEN "alter_role" ELSE "create_role"
database_statement(exists) == IF exists THEN "alter_db" ELSE "create_db"

\* database.py:113-160: one probe, one statement; nothing is read back
\* after the statement
create_database_user(at) ==
    /\ pc = at
    /\ LET r == IF at = "mkuser"
                   THEN NewRetry("create_user_db", [k |-> 0, kind |-> "exit"])
                   ELSE retry
           next == IF at = "mkuser" THEN "mkdb" ELSE "mkdb2"
       IN IF cfg.dry_run
            THEN NoRun /\ Goto(next) /\ host' = host /\ retry' = Called(r, "run")
            ELSE \E probe \in {"ok", "exit", "int"} :
                  IF probe = "int"
                    THEN /\ Ran("db", {}, "int")
                         /\ host' = host
                         /\ retry' = Called(r, "int")
                         /\ Raise("interrupt")
                    ELSE \E o \in CreateOutcomes :
                      LET sql == role_statement(check_exists(probe, host.role))
                          rd == Decided(r, probe, host.role, sql)
                      IN  /\ o = "ok" /\ sql = "create_role"
                               => host.role = "missing"
                          /\ Ran("db", {sql}, IF probe = "ok" THEN o
                                              ELSE IF o = "ok" THEN "exit"
                                              ELSE o)
                          /\ host' = IF o = "ok"
                                        THEN [host EXCEPT !.role = "correct"]
                                        ELSE host
                          /\ CASE o = "int" -> retry' = Called(rd, "int")
                                               /\ Raise("interrupt")
                               [] o = "ok" -> retry' = Called(rd, "run")
                                              /\ Goto(next)
                               [] OTHER ->
                                    IF at = "mkuser"
                                      THEN retry' =
                                             [Called(rd, "prompt")
                                                EXCEPT !.kind = o]
                                           /\ Goto("guide")
                                      ELSE retry' =
                                             [Called(rd, "raise")
                                                EXCEPT !.kind = o]
                                           /\ Raise("error")
    /\ hist' = [hist EXCEPT
                  !.created = IF host.role = "missing"
                                 /\ host'.role = "correct"
                                 THEN @ \cup {"role"} ELSE @,
                  !.passed = IF retry'.sql \in {"create_role", "alter_role"}
                                /\ retry'.result = "run"
                                THEN @ \cup {"role"} ELSE @]
    /\ UNCHANGED <<cfg, exit_code, phaseLog, phaseRet, prompts, idx>>

\* database.py:163-194: one probe, one statement; nothing is read back
\* after the statement
create_database(at) ==
    /\ pc = at
    /\ LET done == IF at = "mkdb" THEN "ok" ELSE "recovered"
       IN IF cfg.dry_run
            THEN /\ NoRun /\ Goto("hba") /\ host' = host
                 /\ retry' = [retry EXCEPT !.result = done]
            ELSE \E probe \in {"ok", "exit", "int"} :
                  IF probe = "int"
                    THEN /\ Ran("db", {}, "int")
                         /\ host' = host
                         /\ retry' = [retry EXCEPT !.result = "int"]
                         /\ Raise("interrupt")
                    ELSE \E o \in CreateOutcomes :
                      LET sql == database_statement(check_exists(probe, host.db))
                          rd == Decided(retry, probe, host.db, sql)
                      IN  /\ o = "ok" /\ sql = "create_db"
                               => host.db = "missing"
                          /\ Ran("db", {sql}, IF probe = "ok" THEN o
                                              ELSE IF o = "ok" THEN "exit"
                                              ELSE o)
                          /\ host' = IF o = "ok"
                                        THEN [host EXCEPT !.db = "correct"]
                                        ELSE host
                          /\ CASE o = "int" ->
                                    retry' = [rd EXCEPT !.result = "int"]
                                    /\ Raise("interrupt")
                               [] o = "ok" ->
                                    retry' = [rd EXCEPT !.result = done]
                                    /\ Goto("hba")
                               [] OTHER -> CreateFailed(at, o, rd)
    /\ hist' = [hist EXCEPT
                  !.created = IF host.db = "missing" /\ host'.db = "correct"
                                 THEN @ \cup {"db"} ELSE @,
                  !.passed = IF retry'.sql \in {"create_db", "alter_db"}
                                /\ pc' = "hba"
                                THEN @ \cup {"database"} ELSE @]
    /\ UNCHANGED <<cfg, exit_code, phaseLog, phaseRet, prompts, idx>>

\* database.py:197-254: read-only; every Exception reads as "not
\* configured" and the result is not used by setup_database
configure_pg_hba ==
    /\ pc = "hba"
    /\ IF cfg.dry_run
          THEN NoRun /\ Goto("conn")
          ELSE \E o \in CmdOutcomes :
                /\ Ran("db", {}, o)
                /\ IF o = "int" THEN Raise("interrupt") ELSE Goto("conn")
    /\ UNCHANGED <<cfg, hist, exit_code, phaseLog, phaseRet, retry, prompts,
                   idx, host>>

\* database.py:488-492: start of the loop around test_connection
setup_database_connection ==
    /\ pc = "conn"
    /\ \E plan \in Plans :
         /\ cfg.dry_run => plan.k = 0
         /\ retry' = NewRetry("test_connection", plan)
    /\ Goto("conn_call")
    /\ NoRun
    /\ UNCHANGED <<cfg, hist, exit_code, phaseLog, phaseRet, prompts, idx,
                   host>>

\* database.py:63-110: a variant that reports success whatever psql said
test_connection_resultIgnored(o) == TRUE

\* database.py:63-110: TRUE iff the connection test reports success; a
\* non-zero exit (authentication failure included) and any Exception
\* report FALSE
test_connection_result(o) == o = "ok"

\* database.py:492-499 with 63-110
setup_database_connection_test ==
    /\ pc = "conn_call"
    /\ IF cfg.dry_run
          THEN /\ NoRun                       \* test_connection returns True
               /\ hist' = hist
               /\ retry' = [retry EXCEPT !.result = "ok"]
               /\ Goto("perm")
          ELSE \E i \in BOOLEAN :
            LET o == IF i THEN "int" ELSE PlannedOutcome(retry)
                s == connect_loop_step(test_connection_result(o), retry.calls)
            IN  /\ Passed("connection", o)
                /\ Ran("db", {}, o)
                /\ CASE o = "int" -> retry' = Called(retry, "int")
                                     /\ Raise("interrupt")
                     [] s = "break" -> retry' = Called(retry, "ok")
                                       /\ Goto("perm")
                     [] s = "sleep" -> retry' = Called(retry, "run")
                                       /\ Goto("conn_sleep")
                     [] OTHER -> retry' = Called(retry, "prompt")
                                 /\ Goto("guide")
    /\ UNCHANGED <<cfg, exit_code, phaseLog, phaseRet, prompts, idx, host>>

\* database.py:497-499
setup_database_connection_sleep ==
    /\ pc = "conn_sleep"
    /\ RetrySleep(RETRY_DELAY_SECONDS, "conn_call")

\* database.py:504-506: the single re-attempt of the connection test
setup_database_connection_retry ==
    /\ pc = "conn_retry"
    /\ \E i \in BOOLEAN :
         LET o == IF i THEN "int" ELSE PlannedOutcome(retry)
         IN  /\ Passed("connection", o)
             /\ Ran("db", {}, o)
             /\ CASE o = "int" -> retry' = Called(retry, "int")
                                  /\ Raise("interrupt")
                  [] test_connection_result(o) ->
                        retry' = Called(retry, "recovered") /\ Goto("perm")
                  [] OTHER -> retry' = Called(retry, "raise")
                              /\ Raise("error")
    /\ UNCHANGED <<cfg, exit_code, phaseLog, phaseRet, prompts, idx, host>>

\* database.py:364-419 called at 508-521: CREATE TABLE IF NOT EXISTS
\* _installer_test and, when that succeeded, DROP TABLE IF EXISTS
\* _installer_test; dropped says that the second statement was sent.
\* Every failure makes setup_database raise; then the phase returns.
verify_permissions ==
    /\ pc = "perm"
    /\ IF cfg.dry_run
          THEN NoRun /\ PhaseReturn("db") /\ hist' = hist
          ELSE \E o \in CreateOutcomes, dropped \in BOOLEAN :
                /\ o = "ok" => dropped
                /\ Passed("permissions", o)
                /\ Ran("db", {"create_table"} \cup
                             (IF dropped THEN {"drop_table"} ELSE {}), o)
                /\ CASE o = "int" -> Raise("interrupt") /\ phaseRet' = phaseRet
                     [] o = "ok" -> PhaseReturn("db")
                     [] OTHER -> Raise("error") /\ phaseRet' = phaseRet
    /\ UNCHANGED <<cfg, exit_code, phaseLog, retry, prompts, idx, host>>

----------------------------------------------------------------------------
(* lib/repos.py: phase Build *)

\* repos.py:970-973: the order of the clone_repository calls
CloneOrder == <<"backend", "frontend", "infiniservice", "libvirt-node">>

\* repos.py:30-35
BUILD_ORDER == <<"libvirt-node", "backend", "frontend", "infiniservice">>

\* repos.py:931-965
clone_and_build ==
    /\ pc = "build"
    /\ Enter("build")
    /\ idx' = 1
    /\ Goto("clone")
    /\ NoRun
    /\ UNCHANGED <<cfg, hist, exit_code, phaseRet, retry, prompts, host>>

NextClone(i) == IF i < Len(CloneOrder) THEN "clone" ELSE "bln"

\* repos.py:112-122: os.path.exists(destination); a checkout and a
\* directory without .git both count
destination_existsOnlyGit(state) == state = "checkout"
destination_exists(state) == state # "absent"

\* repos.py:88-130: dry run and an existing destination return at once
clone_repository ==
    /\ pc = "clone"
    /\ LET repo == CloneOrder[idx]
       IN IF cfg.dry_run \/ destination_exists(host.repos[repo])
            THEN /\ NoRun
                 /\ retry' = retry
                 /\ idx' = idx + 1
                 /\ Goto(NextClone(idx))
            ELSE /\ Effect("build", {}, FALSE, "ok")   \* makedirs(parent)
                 /\ \E plan \in Plans :
                       retry' = NewRetry("clone_repository", plan)
                 /\ idx' = idx
                 /\ Goto("clone_call")
    /\ UNCHANGED <<cfg, hist, exit_code, phaseLog, phaseRet, prompts, host>>

\* repos.py:133-188: what one pass of the loop does with outcome o of
\* attempt number attempt (from 1); an authentication failure is looked
\* for only after the last attempt
clone_step(o, attempt) ==
    CASE o = "int" -> "int"
      [] o = "ok" -> "break"
      [] attempt < MAX_CLONE_RETRIES -> "sleep"
      [] OTHER -> "raise"

\* repos.py:133-188
clone_repository_call ==
    /\ pc = "clone_call"
    /\ \E i \in BOOLEAN :
         LET o == IF i THEN "int" ELSE PlannedOutcome(retry)
             s == clone_step(o, retry.calls + 1)
             repo == CloneOrder[idx]
         IN  /\ Ran("build", {"file_write"}, o)
             /\ CASE s = "break" ->
                      /\ retry' = Called(retry, "ok")
                      /\ host' = [host EXCEPT !.repos[repo] = "checkout"]
                      /\ idx' = idx + 1
                      /\ Goto(NextClone(idx))
                  [] s = "sleep" ->
                      /\ retry' = Called(retry, "run")
                      /\ UNCHANGED <<host, idx>>
                      /\ Goto("clone_sleep")
                  [] s = "raise" ->
                      /\ retry' = Called(retry, "raise")
                      /\ UNCHANGED <<host, idx>>
                      /\ Raise("error")
                  [] OTHER ->
                      /\ retry' = Called(retry, "int")
                      /\ UNCHANGED <<host, idx>>
                      /\ Raise("interrupt")
    /\ UNCHANGED <<cfg, hist, exit_code, phaseLog, phaseRet, prompts>>

\* repos.py:149-151 and 183-185
clone_repository_sleep ==
    /\ pc = "clone_sleep"
    /\ RetrySleep(CLONE_RETRY_DELAY_SECONDS, "clone_call")

\* The build nodes: where each begins, its first command, where it ends,
\* what follows it, and whether it records the owner of its directory.
\* repos.py:191-330, 388-505, 508-596, 599-794
BuildNodes ==
    ("libvirt-node" :> [begin |-> "bln", first |-> "bln_cargo",
                         end |-> "bln_end", after |-> "submodule",
                         guarded |-> FALSE]) @@
    ("backend" :> [begin |-> "bbe", first |-> "bbe_cache",
                   end |-> "bbe_end", after |-> "bfe", guarded |-> TRUE]) @@
    ("frontend" :> [begin |-> "bfe", first |-> "bfe_install",
                    end |-> "bfe_end", after |-> "bis", guarded |-> TRUE]) @@
    ("infiniservice" :> [begin |-> "bis", first |-> "bis_rustup",
                         end |-> "bis_end", after |-> "deploy",
                         guarded |-> TRUE])

\* The commands of the build nodes in the order of the code.  mode says how
\* a failure is handled: "strict" raises RuntimeError on a non-zero exit
\* and on a timeout, "lenient" logs a non-zero exit as a warning and raises
\* on a timeout, "tolerant" logs every Exception.  makes is the artifact
\* verified right after the command, "" if none.
BuildSteps ==
    \* repos.py:248-320
    ("bln_cargo" :> [node |-> "libvirt-node", mode |-> "strict",
                     mut |-> {}, makes |-> "", next |-> "bln_install"]) @@
    ("bln_install" :> [node |-> "libvirt-node", mode |-> "strict",
                       mut |-> {"file_write"}, makes |-> "",
                       next |-> "bln_build"]) @@
    ("bln_build" :> [node |-> "libvirt-node", mode |-> "strict",
                     mut |-> {"file_write"}, makes |-> "node_file",
                     next |-> "bln_pack"]) @@
    ("bln_pack" :> [node |-> "libvirt-node", mode |-> "strict",
                    mut |-> {"file_write"}, makes |-> "tgz",
                    next |-> "bln_end"]) @@
    \* repos.py:434-490
    ("bbe_cache" :> [node |-> "backend", mode |-> "lenient",
                     mut |-> {"file_remove"}, makes |-> "",
                     next |-> "bbe_lock"]) @@
    ("bbe_install" :> [node |-> "backend", mode |-> "strict",
                       mut |-> {"file_write"}, makes |-> "be_node_modules",
                       next |-> "bbe_prisma"]) @@
    ("bbe_prisma" :> [node |-> "backend", mode |-> "strict",
                      mut |-> {"file_write"}, makes |-> "prisma_client",
                      next |-> "bbe_end"]) @@
    \* repos.py:543-581
    ("bfe_install" :> [node |-> "frontend", mode |-> "strict",
                       mut |-> {"file_write"}, makes |-> "fe_node_modules",
                       next |-> "bfe_build"]) @@
    ("bfe_build" :> [node |-> "frontend", mode |-> "strict",
                     mut |-> {"file_write"}, makes |-> "build_id",
                     next |-> "bfe_end"]) @@
    \* repos.py:652-776
    ("bis_rustup" :> [node |-> "infiniservice", mode |-> "strict",
                      mut |-> {}, makes |-> "", next |-> "bis_cargo"]) @@
    ("bis_cargo" :> [node |-> "infiniservice", mode |-> "strict",
                     mut |-> {}, makes |-> "", next |-> "bis_mingw"]) @@
    ("bis_mingw" :> [node |-> "infiniservice", mode |-> "tolerant",
                     mut |-> {}, makes |-> "", next |-> "bis_target"]) @@
    ("bis_target" :> [node |-> "infiniservice", mode |-> "lenient",
                      mut |-> {"file_write"}, makes |-> "",
                      next |-> "bis_linux"]) @@
    ("bis_linux" :> [node |-> "infiniservice", mode |-> "strict",
                     mut |-> {"file_write"}, makes |-> "linux_bin",
                     next |-> "bis_windows"]) @@
    ("bis_windows" :> [node |-> "infiniservice", mode |-> "strict",
                       mut |-> {"file_write"}, makes |-> "windows_exe",
                       next |-> "bis_strip"]) @@
    ("bis_strip" :> [node |-> "infiniservice", mode |-> "tolerant",
                     mut |-> {"file_write"}, makes |-> "",
                     next |-> "bis_end"])

\* repos.py:984-1098: where clone_and_build continues when the build of
\* node n returned
AfterBuildSkipsBackend(n) ==
    IF n = "libvirt-node" THEN "bfe" ELSE BuildNodes[n].after
AfterBuild(n) == BuildNodes[n].after

\* the artifacts that the build of node n verifies
NodeArtifacts(n) ==
    {BuildSteps[l].makes : l \in {k \in DOMAIN BuildSteps :
                                    BuildSteps[k].node = n}} \ {""}

\* repos.py:42-85, 302-306: the check made after a build command: the
\* artifact is looked up in the file system
verify_file_existsAlways(artifact, arts) == TRUE
verify_file_exists(artifact, arts) == artifact \in arts

\* what a build command's outcome o does under handling mode
build_step_result(mode, o) ==
    CASE o = "int" -> "int"
      [] o = "ok" -> "continue"
      [] mode = "tolerant" -> "continue"
      [] mode = "lenient" /\ o = "exit" -> "continue"
      [] OTHER -> "raise"

\* files a privileged build command creates belong to root
Touched(own) == IF own = "user" THEN "mixed" ELSE own

\* repos.py:213-223, 420-432, 529-541, 621-631 and 680-681: the dry-run
\* return, the directory check and the owner record of a node
build_node_begin(n) ==
    /\ pc = BuildNodes[n].begin
    /\ IF cfg.dry_run
          THEN Goto(AfterBuild(n)) /\ hist' = hist
          ELSE IF host.repos[n] = "absent"
                  THEN /\ Raise("error")
                       /\ hist' = [hist EXCEPT !.failed = @ \cup {n}]
                  ELSE /\ Goto(BuildNodes[n].first)
                       /\ hist' = [hist EXCEPT !.started = @ \cup {n}]
    /\ NoRun
    /\ UNCHANGED <<cfg, exit_code, phaseLog, phaseRet, retry, prompts, idx,
                   host>>

\* one command of a build node and the verification of its artifact
\* (repos.py:42-85, 302-306, 318-320, 471-473, 488-490, 558-560, 578-581,
\* 717-719, 756-764)
build_step ==
    /\ pc \in DOMAIN BuildSteps
    /\ LET st == BuildSteps[pc]
       IN \E o \in CmdOutcomes, made \in BOOLEAN :
            LET r == build_step_result(st.mode, o)
                arts == IF o = "ok" /\ made /\ st.makes # ""
                           THEN host.artifacts \cup {st.makes}
                           ELSE host.artifacts
                lost == r = "continue" /\ st.makes # ""
                        /\ st.makes \notin arts
            IN  /\ (st.makes = "" \/ o # "ok") => made
                /\ Effect("build", st.mut, TRUE,
                          IF o = "ok" /\ ~made THEN "exit" ELSE o)
                /\ host' = [host EXCEPT !.artifacts = arts,
                                        !.own[st.node] = Touched(@)]
                /\ hist' = [hist EXCEPT
                      !.failed = IF lost \/ r = "raise"
                                    THEN @ \cup {st.node} ELSE @,
                      !.missing = IF lost THEN @ \cup {st.makes} ELSE @,
                      !.tries[pc] = @ + 1,
                      !.raised = IF lost \/ r = "raise"
                                    THEN @ \cup {pc} ELSE @]
                /\ CASE r = "int" -> Raise("interrupt")
                     [] r = "raise" -> Raise("error")
                     [] st.makes # ""
                        /\ ~verify_file_exists(st.makes, arts) ->
                          Raise("error")
                     [] OTHER -> Goto(st.next)
    /\ UNCHANGED <<cfg, exit_code, phaseLog, phaseRet, retry, prompts, idx>>

\* repos.py:442-446: package-lock.json is removed when it exists
build_backend_remove_lock ==
    /\ pc = "bbe_lock"
    /\ IF host.lockfile
          THEN Effect("build", {"file_remove"}, FALSE, "ok")
          ELSE NoRun
    /\ host' = [host EXCEPT !.lockfile = FALSE]
    /\ Goto("bbe_install")
    /\ UNCHANGED <<cfg, hist, exit_code, phaseLog, phaseRet, retry, prompts,
                   idx>>

\* repos.py:356-385: every entry of the tree gets the recorded owner
restore_ownership(own) == IF own = "mixed" THEN "user" ELSE own

\* repos.py:322-323, 492-498, 583-589, 782-787: the end of a node's build;
\* a node that recorded a non-root owner restores it
build_node_end(n) ==
    /\ pc = BuildNodes[n].end
    /\ IF BuildNodes[n].guarded /\ host.own[n] # "root"
          THEN /\ Effect("build", {}, FALSE, "ok")
               /\ host' = [host EXCEPT !.own[n] = restore_ownership(@)]
          ELSE NoRun /\ host' = host
    /\ hist' = [hist EXCEPT !.verified = @ \cup {n}]
    /\ Goto(AfterBuild(n))
    /\ UNCHANGED <<cfg, exit_code, phaseLog, phaseRet, retry, prompts, idx>>

\* repos.py:993-1039: backend/lib/libvirt-node; a symlink is unlinked, a
\* directory that is not a checkout is removed, then the submodule is added
clone_and_build_submodule ==
    /\ pc = "submodule"
    /\ IF cfg.dry_run
          THEN NoRun /\ host' = host /\ Goto("bbe")
          ELSE LET removed == IF host.submodule = "link" THEN {"file_remove"}
                              ELSE IF host.submodule = "plain"
                                      THEN {"dir_remove"}
                              ELSE {}
               IN IF host.submodule = "submodule"
                    THEN /\ Effect("build", {}, FALSE, "ok")
                         /\ host' = host
                         /\ Goto("bbe")
                    ELSE \E o \in CmdOutcomes :
                          /\ Ran("build", removed \cup {"file_write"}, o)
                          /\ host' = [host EXCEPT !.submodule =
                                        IF o = "ok" THEN "submodule"
                                                    ELSE "absent"]
                          /\ CASE o = "int" -> Raise("interrupt")
                               [] o = "timeout" -> Raise("error")
                               [] o = "exit" -> Goto("submodule_init")
                               [] OTHER -> Goto("bbe")
    /\ UNCHANGED <<cfg, hist, exit_code, phaseLog, phaseRet, retry, prompts,
                   idx>>

\* repos.py:1029-1037: git submodule update --init after a failed add
clone_and_build_submodule_init ==
    /\ pc = "submodule_init"
    /\ \E o \in CmdOutcomes :
         /\ Ran("build", {"file_write"}, o)
         /\ host' = [host EXCEPT !.submodule =
                        IF o = "ok" THEN "submodule" ELSE @]
         /\ CASE o = "int" -> Raise("interrupt")
              [] o = "ok" -> Goto("bbe")
              [] OTHER -> Raise("error")
    /\ UNCHANGED <<cfg, hist, exit_code, phaseLog, phaseRet, retry, prompts,
                   idx>>

\* repos.py:797-928: copies of the binaries and install scripts; every
\* Exception becomes RuntimeError
deploy_infiniservice ==
    /\ pc = "deploy"
    /\ IF cfg.dry_run
          THEN NoRun /\ Goto("virtio")
          ELSE \E o \in {"ok", "exit"} :
                /\ Effect("build", {"file_write"}, FALSE, o)
                /\ IF o = "ok" /\ "linux_bin" \in host.artifacts
                      THEN Goto("virtio")
                      ELSE Raise("error")
    /\ UNCHANGED <<cfg, hist, exit_code, phaseLog, phaseRet, retry, prompts,
                   idx, host>>

\* virtio_setup.py:126-184 called at repos.py:1118-1134, followed by the
\* read-only summary of repos.py:1139-1217; a failed download is a warning
setup_virtio_drivers ==
    /\ pc = "virtio"
    /\ IF cfg.dry_run \/ host.virtio
          THEN NoRun /\ host' = host /\ PhaseReturn("build")
          ELSE \E o \in CmdOutcomes :
                /\ Effect("build", {"file_write"}, FALSE, o)
                /\ host' = [host EXCEPT !.virtio = (o = "ok")]
                /\ IF o = "int"
                      THEN Raise("interrupt") /\ phaseRet' = phaseRet
                      ELSE PhaseReturn("build")
    /\ UNCHANGED <<cfg, hist, exit_code, phaseLog, retry, prompts, idx>>

----------------------------------------------------------------------------
(* lib/services.py: phase Services *)

\* config.py:15-59 and 61-145: the fields and properties of the context
ContextAttributes ==
    {"os_info", "install_dir", "db_host", "db_port", "db_user",
     "db_password", "db_name", "admin_email", "admin_password", "host_ip",
     "network_name", "backend_port", "frontend_port", "skip_isos",
     "skip_windows_isos", "dry_run", "verbose", "data_dir", "database_url",
     "backend_dir", "frontend_dir", "infiniservice_dir", "libvirt_node_dir",
     "iso_dir", "iso_permanent_dir", "iso_temp_dir", "disks_dir", "uefi_dir",
     "sockets_dir", "wallpapers_dir", "backend_url", "frontend_url",
     "graphql_url"}

\* services.py:41-47 and 54-102: the attributes of the context that
\* generate_backend_env reads, on the dry-run path and on the real one
BackendEnvReads(dry) ==
    IF dry THEN {"dry_run", "backend_dir", "database_url", "host_ip",
                 "bridge_name", "backend_port"}
           ELSE {"dry_run", "database_url", "backend_port",
                 "iso_permanent_dir", "host_ip", "install_dir", "iso_dir",
                 "iso_temp_dir", "wallpapers_dir", "bridge_name"}

\* the attributes a context has: those of the class and, for a context
\* that a caller of create_services extended, bridge_name
HasAttributes(c) ==
    ContextAttributes \cup (IF c.bridge_name THEN {"bridge_name"} ELSE {})

\* reading an attribute the context does not have raises AttributeError
AttributeError(reads) == ~(reads \subseteq HasAttributes(cfg))

\* repos.py:333-354: the owner of the installation directory when it is
\* not root; the checkouts and the directory holding them have one owner
get_directory_owner(h) == h.own["backend"] # "root"

\* services.py:517-538
create_services ==
    /\ pc = "svc"
    /\ Enter("svc")
    /\ Goto("env")
    /\ NoRun
    /\ UNCHANGED <<cfg, hist, exit_code, phaseRet, retry, prompts, idx,
                   host>>

\* services.py:109-122 and 150-167: open(dir/.env, 'w') fails with
\* FileNotFoundError without the checkout and with PermissionError when
\* the directory is not writable
write_env(h, repo, o) == IF h.repos[repo] = "absent" THEN "exit" ELSE o

\* services.py:20-122 called at 540-563: the content is built before the
\* file is opened; every Exception becomes RuntimeError in create_services
generate_backend_env ==
    /\ pc = "env"
    /\ IF AttributeError(BackendEnvReads(cfg.dry_run))
          THEN NoRun /\ Raise("error") /\ host' = host
          ELSE IF cfg.dry_run
                  THEN NoRun /\ Goto("env_frontend") /\ host' = host
                  ELSE \E o \in {"ok", "perm"} :
                        LET w == write_env(host, "backend", o)
                        IN  /\ Effect("svc", {"file_write"}, FALSE, w)
                            /\ IF w = "ok"
                                 THEN /\ host' = [host EXCEPT !.env = "root"]
                                      /\ Goto("env_frontend")
                                 ELSE host' = host /\ Raise("error")
    /\ UNCHANGED <<cfg, hist, exit_code, phaseLog, phaseRet, retry, prompts,
                   idx>>

\* services.py:125-167 called at 544
generate_frontend_env ==
    /\ pc = "env_frontend"
    /\ IF cfg.dry_run
          THEN NoRun /\ Goto("env_chown") /\ host' = host
          ELSE \E o \in {"ok", "perm"} :
                LET w == write_env(host, "frontend", o)
                IN  /\ Effect("svc", {"file_write"}, FALSE, w)
                    /\ IF w = "ok"
                         THEN /\ host' = [host EXCEPT !.env = "root"]
                              /\ Goto("env_chown")
                         ELSE host' = host /\ Raise("error")
    /\ UNCHANGED <<cfg, hist, exit_code, phaseLog, phaseRet, retry, prompts,
                   idx>>

\* services.py:546-557: the .env files get the owner of the installation
\* directory; a failure is a warning.  There is no dry-run branch, the
\* files are looked up and chowned if they exist.
create_services_chown_env ==
    /\ pc = "env_chown"
    /\ IF get_directory_owner(host) /\ host.env # "absent"
          THEN \E o \in {"ok", "perm"} :
                /\ Effect("svc", {"chown"}, FALSE, o)
                /\ host' = IF o = "ok" THEN [host EXCEPT !.env = "user"]
                                       ELSE host
          ELSE NoRun /\ host' = host
    /\ Goto("pool")
    /\ UNCHANGED <<cfg, hist, exit_code, phaseLog, phaseRet, retry, prompts,
                   idx>>

\* services.py:170-204: the directory, then `virsh pool-list --all` with
\* check=False; a failed listing reads as "no pool"
setup_libvirt_storage_pool ==
    /\ pc = "pool"
    /\ IF cfg.dry_run
          THEN NoRun /\ Goto("backend_setup")
          ELSE \E probe \in CmdOutcomes :
                /\ Ran("svc", {"chmod"}, probe)
                /\ CASE probe = "int" -> Raise("interrupt")
                     [] probe = "timeout" -> Raise("error")
                     [] probe = "ok" /\ host.pool # "missing" ->
                          Goto("pool_existing")
                     [] OTHER -> Goto("pool_define")
    /\ UNCHANGED <<cfg, hist, exit_code, phaseLog, phaseRet, retry, prompts,
                   idx, host>>

\* services.py:204-210: pool-start and pool-autostart with check=False;
\* nothing is listed afterwards
setup_libvirt_storage_pool_existing ==
    /\ pc = "pool_existing"
    /\ \E o \in CmdOutcomes :
         /\ o = "ok" => host.pool = "inactive"
         /\ Ran("svc", {"pool_start"}, o)
         /\ host' = IF o = "ok" THEN [host EXCEPT !.pool = "active"] ELSE host
         /\ CASE o = "int" -> Raise("interrupt")
              [] o = "timeout" -> Raise("error")
              [] OTHER -> Goto("backend_setup")
    /\ UNCHANGED <<cfg, hist, exit_code, phaseLog, phaseRet, retry, prompts,
                   idx>>

\* services.py:212-229: pool-define-as, pool-build, pool-start and
\* pool-autostart with check=True; defining a pool that exists fails
setup_libvirt_storage_pool_define ==
    /\ pc = "pool_define"
    /\ \E o \in CmdOutcomes :
         /\ o = "ok" => host.pool = "missing"
         /\ Ran("svc", {"pool_define", "pool_start"}, o)
         /\ IF o = "ok"
               THEN /\ host' = [host EXCEPT !.pool = "active"]
                    /\ hist' = [hist EXCEPT !.created = @ \cup {"pool"}]
                    /\ Goto("pool_verify")
               ELSE /\ \E left \in {host.pool, "inactive"} :
                         host' = [host EXCEPT !.pool = left]
                    /\ hist' = hist
                    /\ Raise(IF o = "int" THEN "interrupt" ELSE "error")
    /\ UNCHANGED <<cfg, exit_code, phaseLog, phaseRet, retry, prompts, idx>>

\* services.py:231-236: what follows the listing after the creation; a
\* pool that is not listed as active is a warning
pool_verify_result(listed) == "return"

\* services.py:230-241: `virsh pool-list` with check=True
setup_libvirt_storage_pool_verify ==
    /\ pc = "pool_verify"
    /\ \E o \in CmdOutcomes :
         /\ Ran("svc", {}, o)
         /\ IF o = "ok"
               THEN /\ hist' = [hist EXCEPT !.reprobed = @ \cup {"pool"}]
                    /\ IF pool_verify_result(host.pool = "active") = "return"
                          THEN Goto("backend_setup")
                          ELSE Raise("error")
               ELSE /\ hist' = hist
                    /\ Raise(IF o = "int" THEN "interrupt" ELSE "error")
    /\ UNCHANGED <<cfg, exit_code, phaseLog, phaseRet, retry, prompts, idx,
                   host>>

\* services.py:269-290 and 297-316: what follows a command of
\* run_backend_setup; check=True raises on a non-zero exit and every
\* exception is re-raised
backend_setup_resultLenient(o) ==
    CASE o = "int" -> "interrupt"
      [] OTHER -> "continue"
backend_setup_result(o) ==
    CASE o = "int" -> "interrupt"
      [] o = "ok" -> "continue"
      [] OTHER -> "raise"

\* services.py:244-290 called at 575-579: `npx prisma migrate deploy`
run_backend_setup ==
    /\ pc = "backend_setup"
    /\ IF cfg.dry_run
          THEN NoRun /\ Goto("unit") /\ idx' = 1 /\ host' = host
               /\ hist' = hist
          ELSE \E o \in CmdOutcomes :
                LET r == backend_setup_result(o)
                IN  /\ Ran("svc", {"db_migrate"}, o)
                    /\ idx' = idx
                    /\ host' = IF o = "ok"
                                  THEN [host EXCEPT !.migrated = TRUE]
                                  ELSE host
                    /\ hist' = IF o = "ok"
                                  THEN [hist EXCEPT !.done = @ \cup {"migrate"}]
                                  ELSE hist
                    /\ CASE r = "interrupt" -> Raise("interrupt")
                         [] r = "continue" -> Goto("backend_seed")
                         [] OTHER -> Raise("error")
    /\ UNCHANGED <<cfg, exit_code, phaseLog, phaseRet, retry, prompts>>

\* services.py:292-336 and 581-602: `npm run setup`, a read-only look at
\* the directories, and the owner of the directories it made is restored
\* (a failure of that is a warning)
run_backend_setup_script ==
    /\ pc = "backend_seed"
    /\ \E o \in CmdOutcomes :
         LET r == backend_setup_result(o)
         IN  /\ Ran("svc", {"backend_setup"}, o)
             /\ hist' = IF o = "ok"
                           THEN [hist EXCEPT !.done = @ \cup {"setup"}]
                           ELSE hist
             /\ CASE r = "interrupt" -> Raise("interrupt") /\ idx' = idx
                  [] r = "continue" -> Goto("unit") /\ idx' = 1
                  [] OTHER -> Raise("error") /\ idx' = idx
    /\ UNCHANGED <<cfg, exit_code, phaseLog, phaseRet, retry, prompts, host>>

\* services.py:604-628 and 630-647: the units, in the order in which they
\* are written and started
AppServices == <<"infinibay-backend", "infinibay-frontend">>

\* services.py:339-405: the unit file is written whatever is there
create_systemd_service ==
    /\ pc = "unit"
    /\ idx \in 1..Len(AppServices)
    /\ LET last == idx = Len(AppServices)
           next == /\ Goto(IF last THEN "start" ELSE "unit")
                   /\ idx' = IF last THEN 1 ELSE idx + 1
       IN IF cfg.dry_run
            THEN NoRun /\ next /\ host' = host
            ELSE \E o \in {"ok", "perm"} :
                  /\ Effect("svc", {"unit_write"}, FALSE, o)
                  /\ IF o = "ok"
                        THEN /\ host' = [host EXCEPT
                                           !.units = @ \cup {AppServices[idx]}]
                             /\ next
                        ELSE host' = host /\ idx' = idx /\ Raise("error")
    /\ UNCHANGED <<cfg, hist, exit_code, phaseLog, phaseRet, retry, prompts>>

\* services.py:459-460
max_wait_seconds == 30
check_interval == 2

\* services.py:651-705: after the last service the summary is printed; it
\* reads context.bridge_name outside every try block
create_services_return ==
    IF AttributeError({"bridge_name"})
       THEN Raise("error") /\ phaseRet' = phaseRet
       ELSE PhaseReturn("svc")

\* the next service is started, or create_services prints and returns
NextAppService ==
    IF idx < Len(AppServices)
       THEN Goto("start") /\ idx' = idx + 1 /\ phaseRet' = phaseRet
       ELSE create_services_return /\ idx' = idx

\* services.py:434-447 with utils.py:85-97: the first of the outcomes of
\* daemon-reload, enable and start that is not a success, with the command
\* it belongs to.  All three run with check=True, so run_command raises on
\* a non-zero exit and the `if not result.success` tests never see one.
first_failure(reload, enable, start) ==
    CASE reload # "ok" -> [cmd |-> "daemon-reload", o |-> reload]
      [] enable # "ok" -> [cmd |-> "enable", o |-> enable]
      [] start # "ok" -> [cmd |-> "start", o |-> start]
      [] OTHER -> [cmd |-> "none", o |-> "ok"]

\* services.py:408-455: daemon-reload, enable and start; a command behind
\* a failing one is not run
enable_and_start_service ==
    /\ pc = "start"
    /\ idx \in 1..Len(AppServices)
    /\ IF cfg.dry_run
          THEN NoRun /\ NextAppService /\ retry' = retry /\ hist' = hist
          ELSE \E reload \in CmdOutcomes, enable \in CmdOutcomes,
                  start \in CmdOutcomes :
                LET f == first_failure(reload, enable, start)
                    name == AppServices[idx]
                    ran == {"daemon-reload"} \cup
                           (IF reload = "ok" THEN {"enable"} ELSE {}) \cup
                           (IF reload = "ok" /\ enable = "ok"
                              THEN {"start"} ELSE {})
                IN  /\ reload # "ok" => enable = "ok"
                    /\ enable # "ok" => start = "ok"
                    /\ Ran("svc",
                           (IF "enable" \in ran THEN {"app_enable"} ELSE {})
                           \cup (IF "start" \in ran THEN {"app_start"}
                                                    ELSE {}),
                           f.o)
                    /\ hist' = [hist EXCEPT
                          !.issued = @ \cup {<<name, c>> : c \in ran},
                          !.cmdFailed = IF f.cmd = "none" THEN @
                                        ELSE @ \cup {<<name, f.cmd, f.o>>}]
                    /\ idx' = idx
                    /\ phaseRet' = phaseRet
                    /\ retry' = NewRetry("service_wait",
                                         [k |-> 0, kind |-> "exit"])
                    /\ CASE f.o = "int" -> Raise("interrupt")
                         [] f.o = "ok" -> Goto("start_wait")
                         [] OTHER -> Raise("error")
    /\ UNCHANGED <<cfg, exit_code, phaseLog, prompts, host>>

\* what `systemctl is-active` reports, or how the command ends
ActiveStates == {"active", "activating", "inactive", "failed", "timeout",
                 "int"}

\* services.py:465: a variant of the loop test that admits one more pass
wait_budget_leftInclusive(elapsed) == elapsed <= max_wait_seconds

\* services.py:465: `while elapsed < max_wait_seconds`
wait_budget_left(elapsed) == elapsed < max_wait_seconds

\* services.py:457-504: one pass of the wait loop, or the code behind the
\* loop when the time is used up: a service that is not active by then is
\* a warning and the function returns
enable_and_start_service_wait ==
    /\ pc = "start_wait"
    /\ IF wait_budget_left(retry.slept)
          THEN \E st \in ActiveStates :
                /\ Ran("svc", {}, CASE st = "active" -> "ok"
                                    [] st \in {"timeout", "int"} -> st
                                    [] OTHER -> "exit")
                /\ retry' = [Called(retry,
                                    IF st = "active" THEN "ok" ELSE "run")
                               EXCEPT !.kind = st]
                /\ CASE st = "active" ->
                          /\ host' = [host EXCEPT
                                        !.running = @ \cup {AppServices[idx]}]
                          /\ NextAppService
                     [] st \in {"activating", "inactive"} ->
                          /\ host' = host /\ idx' = idx
                          /\ phaseRet' = phaseRet
                          /\ Goto("start_sleep")
                     [] OTHER ->
                          /\ host' = host /\ idx' = idx
                          /\ phaseRet' = phaseRet
                          /\ Raise(IF st = "int" THEN "interrupt" ELSE "error")
          ELSE \E o \in CmdOutcomes :       \* `systemctl status`, check=False
                /\ Ran("svc", {}, IF o = "ok" THEN "exit" ELSE o)
                /\ retry' = [retry EXCEPT !.result = "timeout"]
                /\ host' = host
                /\ CASE o = "int" -> /\ idx' = idx /\ phaseRet' = phaseRet
                                     /\ Raise("interrupt")
                     [] o = "timeout" -> /\ idx' = idx /\ phaseRet' = phaseRet
                                         /\ Raise("error")
                     [] OTHER -> NextAppService
    /\ UNCHANGED <<cfg, hist, exit_code, phaseLog, prompts>>

\* services.py:473-475 and 488-491
enable_and_start_service_sleep ==
    /\ pc = "start_sleep"
    /\ RetrySleep(check_interval, "start_wait")

----------------------------------------------------------------------------
(* Initial states and next-state relation *)

Range(f) == {f[i] : i \in DOMAIN f}

Repos == {"backend", "frontend", "infiniservice", "libvirt-node"}

Artifacts == {"node_file", "tgz", "be_node_modules", "prisma_client",
              "fe_node_modules", "build_id", "linux_bin", "windows_exe"}

\* a freshly installed machine; broken names a command that the package
\* installation fails to provide ("none" if there is no such command)
BareHost(broken) ==
    [cmds |-> {}, broken |-> broken, pgInit |-> FALSE, role |-> "missing",
     db |-> "missing", repos |-> [r \in Repos |-> "absent"],
     artifacts |-> {}, own |-> [r \in Repos |-> "root"],
     submodule |-> "absent", lockfile |-> FALSE, virtio |-> FALSE,
     env |-> "absent", pool |-> "missing", migrated |-> FALSE, units |-> {},
     running |-> {}]

\* a machine on which an earlier run completed; own is the owner of the
\* checkouts
ProvisionedHost(owner) ==
    [cmds |-> AllCommands, broken |-> "none", pgInit |-> TRUE,
     role |-> "correct", db |-> "correct",
     repos |-> [r \in Repos |-> "checkout"], artifacts |-> Artifacts,
     own |-> [r \in Repos |-> owner], submodule |-> "submodule",
     lockfile |-> TRUE, virtio |-> TRUE, env |-> owner, pool |-> "active",
     migrated |-> TRUE, units |-> Range(AppServices),
     running |-> Range(AppServices)]

\* a machine on which the first four phases completed
BuiltHost ==
    [ProvisionedHost("root") EXCEPT !.env = "absent", !.pool = "missing",
                                    !.migrated = FALSE, !.units = {},
                                    !.running = {}]

\* a machine somebody worked on by hand: the distribution's rust, a role
\* with another password, checkouts without builds, a symlink or a plain
\* directory where the submodule goes; with the plain directory comes a
\* database of the right name that another role owns.  infiniservice is
\* local code in a directory without .git.
PartialHost(sub) ==
    [cmds |-> PackageCommands \cup {"rustc", "cargo"}, broken |-> "none",
     pgInit |-> FALSE, role |-> "divergent",
     db |-> IF sub = "plain" THEN "divergent" ELSE "missing",
     repos |-> [r \in Repos |-> CASE r = "frontend" -> "absent"
                                   [] r = "infiniservice" -> "plain"
                                   [] OTHER -> "checkout"],
     artifacts |-> {}, own |-> [r \in Repos |-> "user"],
     submodule |-> sub, lockfile |-> TRUE, virtio |-> FALSE,
     env |-> "absent", pool |-> "inactive", migrated |-> FALSE,
     units |-> {}, running |-> {}]

Presets == {"bare", "bare_no_mingw", "provisioned", "provisioned_user",
            "partial_link", "partial_plain"}

\* the hosts on which create_services is called with a complete context
ServicePresets == {"built", "provisioned", "provisioned_user",
                   "partial_link"}

HostOf(preset) ==
    CASE preset = "bare" -> BareHost("none")
      [] preset = "bare_no_mingw" -> BareHost(MINGW_GCC)
      [] preset = "provisioned" -> ProvisionedHost("root")
      [] preset = "provisioned_user" -> ProvisionedHost("user")
      [] preset = "partial_link" -> PartialHost("link")
      [] preset = "built" -> BuiltHost
      [] OTHER -> PartialHost("plain")

\* the invocations: install.py with its flags and environment, or a direct
\* call of one phase function with a context.  Fields that the invoked
\* code does not read are held at one value.
Invocations ==
    \* install.py --dry-run, with and without --host-ip
    [entry : {"main"}, dry_run : {TRUE}, is_root : {TRUE}, os_ok : {TRUE},
     host_ip_arg : BOOLEAN, sock_ok : BOOLEAN, os_type : {"ubuntu"},
     sudo_user : {TRUE}, preset : {"bare", "provisioned"},
     stdin : {"tty"}, bridge_name : {FALSE}]
    \cup
    \* install.py as a non-root user or on an unsupported release
    {[entry |-> "main", dry_run |-> d, is_root |-> r, os_ok |-> ~r,
      host_ip_arg |-> TRUE, sock_ok |-> TRUE, os_type |-> "ubuntu",
      sudo_user |-> TRUE, preset |-> "bare", stdin |-> "tty",
      bridge_name |-> FALSE] : d, r \in BOOLEAN}
    \cup
    \* install.py on the hosts of Presets
    [entry : {"main"}, dry_run : {FALSE}, is_root : {TRUE}, os_ok : {TRUE},
     host_ip_arg : {FALSE}, sock_ok : BOOLEAN, os_type : {"ubuntu"},
     sudo_user : {TRUE}, preset : Presets, stdin : {"tty"},
     bridge_name : {FALSE}]
    \cup
    [entry : {"main"}, dry_run : {FALSE}, is_root : {TRUE}, os_ok : {TRUE},
     host_ip_arg : {TRUE}, sock_ok : {TRUE}, os_type : {"ubuntu", "fedora"},
     sudo_user : BOOLEAN, preset : {"bare", "provisioned"},
     stdin : {"tty"}, bridge_name : {FALSE}]
    \cup
    \* the phase functions called with a context
    [entry : {"run_system_checks"}, dry_run : BOOLEAN, is_root : {TRUE},
     os_ok : {TRUE}, host_ip_arg : {TRUE}, sock_ok : {TRUE},
     os_type : {"ubuntu", "fedora"}, sudo_user : BOOLEAN, preset : Presets,
     stdin : {"tty"}, bridge_name : {FALSE}]
    \cup
    [entry : {"setup_database", "clone_and_build", "create_services"},
     dry_run : BOOLEAN, is_root : {TRUE}, os_ok : {TRUE},
     host_ip_arg : {TRUE}, sock_ok : {TRUE}, os_type : {"ubuntu"},
     sudo_user : {TRUE}, preset : Presets, stdin : {"tty"},
     bridge_name : {FALSE}]
    \cup
    \* setup_database in an unattended run: stdin is at end of file, or
    \* open with nobody writing to it
    [entry : {"setup_database"}, dry_run : {FALSE}, is_root : {TRUE},
     os_ok : {TRUE}, host_ip_arg : {TRUE}, sock_ok : {TRUE},
     os_type : {"ubuntu"}, sudo_user : {TRUE}, preset : {"provisioned"},
     stdin : {"closed", "silent"}, bridge_name : {FALSE}]
    \cup
    \* create_services called with a context that carries bridge_name
    [entry : {"create_services"}, dry_run : BOOLEAN, is_root : {TRUE},
     os_ok : {TRUE}, host_ip_arg : {TRUE}, sock_ok : {TRUE},
     os_type : {"ubuntu"}, sudo_user : {TRUE}, preset : ServicePresets,
     stdin : {"tty"}, bridge_name : {TRUE}]

\* nothing built, verified, created or probed yet
NoHistory ==
    [started |-> {}, verified |-> {}, failed |-> {}, missing |-> {},
     done |-> {}, created |-> {}, reprobed |-> {},
     tries |-> [l \in DOMAIN BuildSteps |-> 0], raised |-> {},
     passed |-> {}, issued |-> {}, cmdFailed |-> {}]

EntryLabel(e) ==
    CASE e = "main" -> "main"
      [] e = "run_system_checks" -> "deps"
      [] e = "setup_database" -> "db"
      [] e = "clone_and_build" -> "build"
      [] OTHER -> "svc"

Init ==
    /\ cfg \in Invocations
    /\ pc = EntryLabel(cfg.entry)
    /\ exit_code = NoExit
    /\ exc = "none"
    /\ phaseLog = <<>>
    /\ phaseRet = {}
    /\ opsIn = {}
    /\ muts = {}
    /\ spawned = FALSE
    /\ intr = [seen |-> FALSE, after |-> FALSE]
    /\ allOk = TRUE
    /\ retry = NoRetry
    /\ prompts = 0
    /\ idx = 0
    /\ host = HostOf(cfg.preset)
    /\ hist = NoHistory

Next ==
    \/ main_start
    \/ create_context_from_args
    \/ main_dispatch
    \/ main_except
    \/ run_system_checks
    \/ update_package_cache
    \/ update_package_cache_call
    \/ update_package_cache_sleep
    \/ install_packages
    \/ install_packages_call
    \/ install_packages_sleep
    \/ verify_installations
    \/ initialize_postgresql
    \/ enable_and_start_services
    \/ enable_and_start_services_try
    \/ enable_and_start_services_fallback
    \/ enable_and_start_services_usermod
    \/ install_rustup
    \/ install_rustup_update
    \/ install_rustup_remove
    \/ install_rustup_install
    \/ install_rustup_toolchain
    \/ verify_mingw_installation
    \/ check_kvm_support
    \/ setup_database
    \/ setup_database_service_check
    \/ setup_database_service_sleep
    \/ interactive_troubleshooting_guide
    \/ interactive_troubleshooting_prompt
    \/ setup_database_service_retry
    \/ create_database_user("mkuser")
    \/ create_database("mkdb")
    \/ create_database_user("mkuser2")
    \/ create_database("mkdb2")
    \/ configure_pg_hba
    \/ setup_database_connection
    \/ setup_database_connection_test
    \/ setup_database_connection_sleep
    \/ setup_database_connection_retry
    \/ verify_permissions
    \/ clone_and_build
    \/ clone_repository
    \/ clone_repository_call
    \/ clone_repository_sleep
    \/ build_node_begin("libvirt-node")
    \/ build_node_begin("backend")
    \/ build_node_begin("frontend")
    \/ build_node_begin("infiniservice")
    \/ build_step
    \/ build_backend_remove_lock
    \/ build_node_end("libvirt-node")
    \/ build_node_end("backend")
    \/ build_node_end("frontend")
    \/ build_node_end("infiniservice")
    \/ clone_and_build_submodule
    \/ clone_and_build_submodule_init
    \/ deploy_infiniservice
    \/ setup_virtio_drivers
    \/ create_services
    \/ generate_backend_env
    \/ generate_frontend_env
    \/ create_services_chown_env
    \/ setup_libvirt_storage_pool
    \/ setup_libvirt_storage_pool_existing
    \/ setup_libvirt_storage_pool_define
    \/ setup_libvirt_storage_pool_verify
    \/ run_backend_setup
    \/ run_backend_setup_script
    \/ create_systemd_service
    \/ enable_and_start_service
    \/ enable_and_start_service_wait
    \/ enable_and_start_service_sleep

Spec == Init /\ [][Next]_vars

----------------------------------------------------------------------------
(* Properties *)

\* C1: in a non-dry-run execution of main the phase functions are entered
\* in the order Dependencies, Database, Build, Services, each at most once,
\* and a phase is entered only after every earlier phase returned normally.
C1_PhaseOrder ==
    (cfg.entry = "main" /\ ~cfg.dry_run) =>
        /\ Len(phaseLog) <= Len(PhaseOrder)
        /\ \A i \in 1..Len(phaseLog) :
              /\ phaseLog[i] = PhaseOrder[i]
              /\ \A j \in 1..(i - 1) : PhaseOrder[j] \in phaseRet

\* a run of main that entered all four phases
C1_Witness ==
    /\ cfg.entry = "main"
    /\ ~cfg.dry_run
    /\ phaseLog = PhaseOrder
    /\ phaseRet = {"deps", "db", "build"}

\* C2: when a phase raises an error that is not an operator interrupt, no
\* operation of a later phase is executed and main exits with 1; main
\* exits with 0 only if all four phases returned or the run was a dry run;
\* main exits with 130 when an interrupt reached it.
C2_ErrorAborts ==
    cfg.entry = "main" =>
        /\ exc = "error" =>
              /\ Len(phaseLog) >= 1
              /\ phaseLog[Len(phaseLog)] \notin phaseRet
              /\ (opsIn \cap Phases) \subseteq Range(phaseLog)
              /\ pc = "done" => exit_code = 1
        /\ exit_code = 0 => (phaseRet = Phases \/ cfg.dry_run)
        /\ (exc = "interrupt" /\ pc = "done") => exit_code = 130

\* main ended with 1 after the Database phase raised an error
C2_Witness ==
    /\ cfg.entry = "main"
    /\ pc = "done"
    /\ exc = "error"
    /\ exit_code = 1
    /\ phaseLog = <<"deps", "db">>
    /\ opsIn \cap Phases = {"deps", "db"}

\* C3: if every external command and every filesystem operation succeeds,
\* a non-dry-run run of main completes all four phases and exits with 0.
C3_AllSucceedCompletes ==
    (/\ cfg.entry = "main" /\ ~cfg.dry_run /\ cfg.is_root /\ cfg.os_ok
     /\ allOk /\ pc = "done")
        => (exit_code = 0 /\ phaseRet = Phases)

\* the kinds of operations that count as mutations of the host
MutatingKinds ==
    {"create_role", "alter_role", "create_db", "alter_db", "pkg_install",
     "file_write", "file_remove", "dir_remove", "unit_write",
     "service_enable", "service_start"}

\* C4: a run of the full pipeline against a host that an earlier run fully
\* provisioned performs no mutating operation and exits with 0.
C4_SecondRunMutatesNothing ==
    (/\ cfg.entry = "main" /\ ~cfg.dry_run
     /\ cfg.preset \in {"provisioned", "provisioned_user"}
     /\ allOk /\ pc = "done")
        => (muts \cap MutatingKinds = {} /\ exit_code = 0)

\* C5: install.py --dry-run with every other flag at its default exits
\* with 0 without spawning a process, without writing anything and
\* without entering a phase function.
C5_DryRunDefaults ==
    (/\ cfg.entry = "main" /\ cfg.dry_run /\ ~cfg.host_ip_arg
     /\ cfg.is_root /\ cfg.os_ok /\ pc = "done")
        => (/\ exit_code = 0
            /\ ~spawned
            /\ muts = {}
            /\ phaseLog = <<>>)

\* C6: a phase function called with dry_run set performs no mutating
\* operation, never waits for operator input and returns normally,
\* whatever the state of the host.
C6_DryRunPhaseReturns ==
    (cfg.entry # "main" /\ cfg.dry_run /\ ~intr.seen) =>
        /\ muts \cap MutatingKinds = {}
        /\ prompts = 0
        /\ pc # "prompt"
        /\ pc = "done" => (exc = "none" /\ phaseRet # {})

\* C7: after an operator interrupt was delivered at a blocking point no
\* further command is executed and main exits with 130.
C7_InterruptAborts ==
    cfg.entry = "main" =>
        /\ ~intr.after
        /\ (intr.seen /\ pc = "done") => exit_code = 130

ConnectivityOps == {"pg_service", "test_connection"}

\* C8: against an unreachable database the Database phase makes exactly 3
\* connectivity attempts separated by the retry delay of 3 seconds and
\* then opens the recovery prompt; when the operator confirms and the
\* re-attempt succeeds the phase continues, and returns normally once the
\* remaining steps succeeded.
C8_ScenarioB ==
    retry.op \in ConnectivityOps =>
        /\ pc \in {"guide", "prompt"} =>
              (/\ retry.k >= 3 /\ retry.calls = 3
               /\ retry.sleeps = 2 /\ retry.slept = 2 * 3)
        /\ (retry.k >= 3 /\ retry.calls = 3 /\ retry.result # "int") =>
              (pc \in {"guide", "prompt"} \/ prompts >= 1)
        /\ retry.result = "recovered" =>
              /\ retry.k = 3 /\ retry.calls = 4 /\ prompts >= 1
              /\ retry.op = "pg_service" => (pc = "mkuser" /\ exc = "none")
              /\ (retry.op = "test_connection" /\ exc = "none"
                  /\ pc # "perm") => "db" \in phaseRet

\* setup_database returned after the connection test failed three times,
\* the operator confirmed, and the fourth test succeeded
C8_Witness ==
    /\ cfg.entry = "setup_database"
    /\ ~cfg.dry_run
    /\ pc = "done"
    /\ retry.op = "test_connection"
    /\ retry.result = "recovered"
    /\ retry.calls = 4
    /\ retry.slept = 6
    /\ prompts = 1
    /\ "db" \in phaseRet

RetriedOps == {"pg_service", "test_connection", "clone_repository",
               "update_package_cache", "install_packages"}

\* the number of attempts the loop around op makes at most
maxAttempts(op) ==
    CASE op \in ConnectivityOps -> MAX_CONNECTION_RETRIES
      [] op = "clone_repository" -> MAX_CLONE_RETRIES
      [] op = "update_package_cache" -> UPDATE_MAX_RETRIES
      [] OTHER -> INSTALL_MAX_RETRIES + 1

\* C9: a retried operation that fails transiently exactly k < maxAttempts
\* times and then succeeds is invoked exactly k+1 times and its caller
\* proceeds as on a first-try success, without prompt and without error.
C9_TransientRetried ==
    (/\ ~cfg.dry_run
     /\ retry.op \in RetriedOps
     /\ retry.kind \in {"exit", "timeout"}
     /\ retry.k < maxAttempts(retry.op)
     /\ retry.result \in {"ok", "raise", "prompt", "recovered"})
        => (retry.calls = retry.k + 1 /\ retry.result = "ok")

\* C10: a git clone or a connection test that fails on authentication is
\* invoked exactly once, with no retry and no sleep.
C10_FatalNotRetried ==
    (/\ retry.op \in {"clone_repository", "test_connection"}
     /\ retry.kind = "auth"
     /\ retry.k >= 1
     /\ retry.calls >= 1)
        => (retry.calls = 1 /\ retry.sleeps = 0)

\* the operations of setup_database that open the troubleshooting guide
RecoverableOps == ConnectivityOps \cup {"create_user_db"}

\* the number of calls of op that precede the guide
callsBeforeGuide(op) ==
    IF op \in ConnectivityOps THEN MAX_CONNECTION_RETRIES ELSE 1

\* C11: the guide opens once per operation, after the operation used up
\* its attempts; after the operator confirmed, the operation is called
\* exactly one more time; when that call fails the Database phase raises an
\* error and does not return, and no second prompt for the operation
\* follows.
C11_ReattemptOnce ==
    /\ retry.prompted <= 1
    /\ pc \in {"guide", "prompt"} =>
          /\ retry.op \in RecoverableOps
          /\ retry.prompted = 0
          /\ retry.calls = callsBeforeGuide(retry.op)
    /\ retry.prompted = 1 =>
          retry.calls <= callsBeforeGuide(retry.op) + 1
    /\ retry.result = "recovered" =>
          /\ retry.prompted = 1
          /\ retry.calls = callsBeforeGuide(retry.op) + 1
    /\ retry.result = "raise" /\ retry.op \in RecoverableOps =>
          /\ retry.prompted = 1
          /\ retry.calls = callsBeforeGuide(retry.op) + 1
          /\ exc = "error"
          /\ "db" \notin phaseRet
          /\ pc \in {"main_except", "done"}

\* the connection test failed again after the operator confirmed
C11_Witness ==
    /\ retry.op = "test_connection"
    /\ retry.result = "raise"
    /\ retry.prompted = 1
    /\ cfg.entry = "main"
    /\ pc = "done"
    /\ exit_code = 1

\* C12: in an unattended run the troubleshooting guide is disabled: an
\* operation of setup_database that used up its attempts fails the run at
\* once, and input() is never called.
C12_UnattendedNeverPrompts ==
    cfg.stdin # "tty" =>
        /\ pc \notin {"guide", "prompt"}
        /\ retry.prompted = 0
        /\ prompts = 0

\* C13: a resource (role, database, storage pool) that was missing and
\* that the installer created is probed again after the creation, and the
\* creating function returns normally only when that probe found the
\* resource present and correct.
C13_CreatedIsReprobed ==
    /\ \A r \in hist.created :
          (exc = "none" /\ pc # "pool_verify") => r \in hist.reprobed
    /\ "pool" \in hist.reprobed => host.pool = "active"

\* the statements that destroy a role or a database
DropKinds == {"drop_role", "drop_db"}

BuildDeps ==
    [n \in Repos |->
        CASE n = "libvirt-node" -> {}
          [] n = "backend" -> {"libvirt-node"}
          [] OTHER -> {"libvirt-node", "backend"}]

\* C15: the build of a node starts only after the builds of the nodes it
\* depends on (backend: libvirt-node; frontend and infiniservice:
\* libvirt-node and backend) completed with their artifacts verified, and
\* never after one of them failed.
C15_BuildTopology ==
    /\ \A n \in hist.started :
          /\ BuildDeps[n] \subseteq hist.verified
          /\ BuildDeps[n] \cap hist.failed = {}
    /\ \A n \in hist.verified :
          /\ n \in hist.started
          /\ n \notin hist.failed
          /\ NodeArtifacts(n) \subseteq host.artifacts

\* on a host without any artifact the infiniservice build started after
\* libvirt-node and backend were built and verified
C15_Witness ==
    /\ HostOf(cfg.preset).artifacts = {}
    /\ "infiniservice" \in hist.started
    /\ {"libvirt-node", "backend", "frontend"} \subseteq hist.verified

\* C16 (Scenario C): when an artifact is missing after its build step,
\* clone_and_build raises an error and does not return; main never enters
\* the Services phase, no unit file is written, none of the installer's
\* services is enabled or started, and main exits with 1.
C16_ScenarioC ==
    hist.missing # {} =>
        /\ exc = "error"
        /\ "build" \notin phaseRet
        /\ "svc" \notin Range(phaseLog)
        /\ muts \cap {"unit_write", "app_enable", "app_start"} = {}
        /\ host.units = HostOf(cfg.preset).units
        /\ host.running = HostOf(cfg.preset).running
        /\ (cfg.entry = "main" /\ pc = "done") => exit_code = 1

\* main ended after the backend's node_modules were missing
C16_Witness ==
    /\ cfg.entry = "main"
    /\ "be_node_modules" \in hist.missing
    /\ pc = "done"
    /\ exit_code = 1

\* C17: in the Services phase a unit file is written and a service is
\* enabled or started only after the migrations and the backend setup both
\* succeeded in this run; when the migrations fail, no unit file is written
\* and no service is started.
C17_SetupBeforeUnits ==
    ~cfg.dry_run =>
        /\ (muts \cap {"unit_write", "app_enable", "app_start"} # {}
            \/ pc \in {"unit", "start", "start_wait", "start_sleep"}
            \/ "svc" \in phaseRet)
              => {"migrate", "setup"} \subseteq hist.done
        /\ "migrate" \notin hist.done =>
              /\ host.units = HostOf(cfg.preset).units
              /\ host.running = HostOf(cfg.preset).running

\* both units were written and started after the migrations and the setup
C17_Witness ==
    /\ ~cfg.dry_run
    /\ cfg.preset = "built"
    /\ hist.done = {"migrate", "setup"}
    /\ host.units = Range(AppServices)
    /\ host.running = Range(AppServices)
    /\ "svc" \in phaseRet

\* C18: clone_repository called for a destination that exists, as a
\* checkout or as a directory that is not a checkout, runs no command,
\* changes nothing on the host and returns normally to the next clone.
C18_CloneSkipsExisting ==
    [][(/\ pc = "clone"
        /\ ~cfg.dry_run
        /\ host.repos[CloneOrder[idx]] # "absent")
          => (/\ host' = host
              /\ spawned' = spawned
              /\ muts' = muts
              /\ opsIn' = opsIn
              /\ exc' = exc
              /\ idx' = idx + 1
              /\ pc' = NextClone(idx))]_vars

\* the directory without .git was skipped and the next clone was reached
C18_Witness ==
    /\ ~cfg.dry_run
    /\ pc = "clone"
    /\ idx = 4
    /\ HostOf(cfg.preset).repos["infiniservice"] = "plain"
    /\ host.repos["infiniservice"] = "plain"
    /\ exc = "none"

\* C19: no step removes a directory that existed before the run; a
\* directory that is not a checkout, found where a checkout or the
\* submodule is expected, is still there afterwards.
C19_NoDirectoryRemoved ==
    /\ "dir_remove" \notin muts
    /\ HostOf(cfg.preset).submodule = "plain" => host.submodule = "plain"
    /\ \A r \in Repos :
          HostOf(cfg.preset).repos[r] = "plain" => host.repos[r] = "plain"

\* C20: every build node is wrapped by the ownership guard: a checkout
\* that belonged to a non-root user before the node's build belongs to
\* that user, every file of it, when the node's build has returned.
C20_OwnershipGuard ==
    \A n \in Repos :
        (/\ pc = AfterBuild(n)
         /\ n \in hist.verified
         /\ HostOf(cfg.preset).repos[n] # "absent"
         /\ HostOf(cfg.preset).own[n] = "user")
            => host.own[n] = "user"


\* the retried operations outside the Database phase
DirectOps == RetriedOps \ RecoverableOps

\* C26: the troubleshooting guide and its prompt are reached only from the
\* recoverable operations of the Database phase; a package cache update,
\* a package installation or a clone that used up its attempts, and a
\* failing build, raise at once; Dependencies, Build and Services never
\* prompt.
C26_RecoveryOnlyInDatabase ==
    /\ pc \in {"guide", "prompt"} =>
          /\ retry.op \in RecoverableOps
          /\ phaseLog # <<>>
          /\ phaseLog[Len(phaseLog)] = "db"
    /\ prompts > 0 => \E k \in 1..Len(phaseLog) : phaseLog[k] = "db"
    /\ retry.op \in DirectOps =>
          /\ retry.prompted = 0
          /\ retry.result \notin {"prompt", "recovered"}
          /\ retry.result = "raise" => exc = "error"
    /\ (\E k \in 1..Len(phaseLog) : phaseLog[k] \in {"build", "svc"}) =>
          pc \notin {"guide", "prompt"}

\* a clone failed three times in a run that never prompted, and the run
\* ended with exit code 1
C26_Witness ==
    /\ cfg.entry = "main"
    /\ retry.op = "clone_repository"
    /\ retry.calls = MAX_CLONE_RETRIES
    /\ retry.result = "raise"
    /\ prompts = 0
    /\ pc = "done"
    /\ exit_code = 1


\* C27: a permission-denied failure of the statement that creates the
\* role or the database is surfaced at once: the Database phase raises,
\* the guide does not open and the creation is not attempted again.
C27_PermissionDeniedSurfaced ==
    (retry.op = "create_user_db" /\ retry.kind = "perm") =>
        /\ retry.result = "raise"
        /\ exc = "error"
        /\ pc \notin {"guide", "prompt", "mkuser2", "mkdb2"}
        /\ "db" \notin phaseRet


\* C28: a timeout of a retried operation is transient: the package cache
\* update and the package installation, like the clone, sleep and call
\* the operation again until maxAttempts calls were made, and raise only
\* then.
C28_TimeoutIsTransient ==
    (/\ retry.op \in DirectOps
     /\ retry.kind = "timeout"
     /\ retry.k >= 1
     /\ retry.result = "raise")
        => /\ retry.calls = maxAttempts(retry.op)
           /\ retry.sleeps = maxAttempts(retry.op) - 1


\* the length of the sleep between two attempts of op
retryDelay(op) ==
    CASE op \in ConnectivityOps -> RETRY_DELAY_SECONDS
      [] op = "clone_repository" -> CLONE_RETRY_DELAY_SECONDS
      [] op = "update_package_cache" -> UPDATE_RETRY_DELAY
      [] OTHER -> INSTALL_RETRY_DELAY

\* the labels at which a retry loop sleeps
SleepLabels == {"svc_sleep", "conn_sleep", "clone_sleep", "upd_sleep",
                "inst_sleep"}

\* C29: a retried operation that fails transiently (non-zero exit or
\* timeout) on every attempt is called exactly maxAttempts times (3 for
\* the service check, the connection test, the clone, the apt cache update
\* and the package installation) with exactly maxAttempts - 1 sleeps of
\* the fixed length, none of them after the last attempt, before the guide
\* opens or the error is raised.
C29_ExhaustionCounts ==
    /\ (/\ retry.op \in RetriedOps
        /\ ~cfg.dry_run
        /\ retry.op = "update_package_cache" => cfg.os_type = "ubuntu"
        /\ retry.kind \in {"exit", "timeout"}
        /\ retry.k >= maxAttempts(retry.op)
        /\ retry.prompted = 0
        /\ retry.result \in {"prompt", "raise"})
          => /\ retry.calls = maxAttempts(retry.op)
             /\ retry.sleeps = maxAttempts(retry.op) - 1
             /\ retry.slept = (maxAttempts(retry.op) - 1) * retryDelay(retry.op)
    /\ pc \in SleepLabels => retry.calls < maxAttempts(retry.op)
    /\ \A op \in RetriedOps : maxAttempts(op) = 3


InstallSteps == {"bln_install", "bbe_install", "bfe_install"}
CompileSteps == {"bln_build", "bbe_prisma", "bfe_build", "bis_linux",
                 "bis_windows"}

\* C31: within a build node only the dependency installation is retried:
\* an `npm install` that failed is called again before the node gives up,
\* while a failing compile or generate command is called exactly once and
\* ends the Build phase with an error.
C31_OnlyInstallRetried ==
    /\ \A l \in CompileSteps :
          /\ hist.tries[l] <= 1
          /\ l \in hist.raised => exc = "error" /\ "build" \notin phaseRet
    /\ \A l \in InstallSteps : l \in hist.raised => hist.tries[l] > 1

\* the build nodes that record the owner of their directory
GuardedNodes == {n \in DOMAIN BuildNodes : BuildNodes[n].guarded}

\* C32: the ownership restoration runs on every exit path of a guarded
\* build node: when the owner was recorded and a build command then fails
\* or times out, the tree has its recorded owner again when the error
\* leaves the node.
C32_RestoreOnEveryExit ==
    \A l \in hist.raised :
        (/\ BuildSteps[l].node \in GuardedNodes
         /\ HostOf(cfg.preset).own[BuildSteps[l].node] = "user"
         /\ exc = "error")
            => host.own[BuildSteps[l].node] = "user"


\* the stages of setup_database
DatabaseStages == {"pg_service", "role", "database", "connection",
                   "permissions"}

\* C34: outside dry-run setup_database returns normally only when, in
\* that call, the service check as postgres succeeded, the role and the
\* database statements completed, a connection test with the new
\* credentials succeeded and the permission check (create and drop of a
\* test table) succeeded; in every other case it raises.
C34_ReturnMeansVerified ==
    /\ (~cfg.dry_run /\ "db" \in phaseRet) => DatabaseStages \subseteq hist.passed
    /\ (/\ ~cfg.dry_run
        /\ \E k \in 1..Len(phaseLog) : phaseLog[k] = "db"
        /\ "db" \notin phaseRet
        /\ pc = "done")
          => exc \in {"error", "interrupt"}

\* the connection test succeeded only in the call after the guide, and
\* setup_database returned with every stage passed
C34_Witness ==
    /\ ~cfg.dry_run
    /\ cfg.entry = "setup_database"
    /\ "db" \in phaseRet
    /\ pc = "done"
    /\ retry.op = "test_connection"
    /\ retry.result = "recovered"
    /\ hist.passed = DatabaseStages


\* C35: enable_and_start_service returns normally only after an is-active
\* probe of the service reported "active"; when the service is reported
\* "failed", or is still not active when the wait budget is used up, it
\* raises and the Services phase fails.
C35_StartedMeansActive ==
    (~cfg.dry_run /\ retry.op = "service_wait") =>
        /\ (retry.kind = "failed" \/ retry.result = "timeout") =>
              /\ exc = "error"
              /\ "svc" \notin phaseRet
        /\ (\/ pc = "start" /\ exc = "none"
            \/ "svc" \in phaseRet) =>
              /\ retry.kind = "active"
              /\ retry.result = "ok"

\* the largest number of is-active probes of one service
MaxProbes == max_wait_seconds \div check_interval

\* C36: the activation wait loop ends whatever the service manager
\* reports: one call of enable_and_start_service makes at most 15
\* is-active probes (30 seconds of budget in steps of 2 seconds) and then
\* returns or raises.
C36_WaitLoopBounded ==
    /\ MaxProbes = 15
    /\ retry.op = "service_wait" =>
          /\ retry.calls <= MaxProbes
          /\ retry.slept = check_interval * retry.sleeps
          /\ retry.slept <= max_wait_seconds
          /\ retry.calls \in {retry.sleeps, retry.sleeps + 1}
          /\ pc = "start_sleep" => retry.calls = retry.sleeps + 1
          /\ retry.result = "timeout" => retry.calls = MaxProbes

\* the service answered "activating" or "inactive" to all 15 probes and
\* the function left the loop
C36_Witness ==
    /\ retry.op = "service_wait"
    /\ retry.calls = MaxProbes
    /\ retry.slept = max_wait_seconds
    /\ retry.result = "timeout"
    /\ pc # "start_wait"

\* C37: a non-zero exit of daemon-reload or of the enable command is a
\* warning and the service is started all the same; only a failing start
\* command or a "failed" status ends the Services phase with an error.
C37_ReloadAndEnableDegrade ==
    \A name \in Range(AppServices) :
        \A cmd \in {"daemon-reload", "enable"} :
            <<name, cmd, "exit">> \in hist.cmdFailed =>
                /\ <<name, "start">> \in hist.issued
                /\ exc # "error"


\* what the Dependencies phase verifies: the required commands and the
\* mingw cross-compiler
VerifiedCommands == REQUIRED_COMMANDS \cup {MINGW_GCC}

\* C38: run_system_checks returns normally only if every required command
\* (node, npm, psql, redis-cli, qemu-system-x86_64) and the mingw
\* cross-compiler were found present after the package installation; when
\* one is missing the phase raises and the Database phase is not entered.
C38_ReturnMeansCommandsPresent ==
    /\ "deps" \in phaseRet => VerifiedCommands \subseteq host.cmds
    /\ pc \in {"initpg", "sysd", "sysd_try", "sysd_fallback", "usermod",
               "rustup", "rustup_update", "rustup_remove", "rustup_install",
               "rustup_toolchain", "mingw"} =>
          REQUIRED_COMMANDS \subseteq host.cmds
    /\ pc = "kvm" => VerifiedCommands \subseteq host.cmds
    /\ ("deps" \in Range(phaseLog) /\ "db" \in Range(phaseLog)) =>
          /\ "deps" \in phaseRet
          /\ VerifiedCommands \subseteq host.cmds
    /\ ("deps" \in Range(phaseLog) /\ pc \in {"main_except", "done"}
          /\ ~(VerifiedCommands \subseteq host.cmds)) =>
          /\ "deps" \notin phaseRet
          /\ exc # "none"

\* the phase returned on a host that started without the commands, and
\* the Database phase began
C38_Witness ==
    /\ cfg.entry = "main"
    /\ cfg.preset = "bare"
    /\ "deps" \in phaseRet
    /\ "db" \in Range(phaseLog)
    /\ VerifiedCommands \subseteq host.cmds


\* C39: on a host without rustup, install_rustup runs the rustup
\* installer, installs the stable toolchain and makes it the default,
\* verifies rustup, rustc and cargo, and returns normally when every
\* external command succeeds, with SUDO_USER set and with SUDO_USER unset.
\* As a property of the steps: the installation step leaves the normal
\* path only after the installer was run and left no rustup behind, the
\* toolchain step only after one of its commands failed, and when the
\* function returns the three commands are present.
C39_RustupInstalled ==
    [][/\ (pc = "rustup_install" /\ pc' # "rustup_toolchain") =>
             /\ "rustup_install" \in muts'
             /\ ~command_exists(host', "rustup")
       /\ (pc = "rustup_toolchain" /\ pc' # "mingw") =>
             /\ "rustup_toolchain" \in muts'
             /\ ~allOk'
       /\ (pc = "rustup_toolchain" /\ pc' = "mingw") =>
             \A c \in RustCommands : command_exists(host', c)]_vars

----------------------------------------------------------------------------
(* Component specifications: one function or one script at a time.  They
   use cfg for the inputs, pc for the position, exc for the exception and
   host for the state the component works on; the other variables rest. *)

Resting ==
    /\ exit_code = NoExit
    /\ phaseLog = <<>>
    /\ phaseRet = {}
    /\ opsIn = {}
    /\ muts = {}
    /\ spawned = FALSE
    /\ intr = [seen |-> FALSE, after |-> FALSE]
    /\ allOk = TRUE
    /\ retry = NoRetry
    /\ prompts = 0
    /\ idx = 0
    /\ hist = NoHistory

Rest == UNCHANGED <<cfg, exit_code, phaseLog, phaseRet, opsIn, muts, spawned,
                    intr, allOk, retry, prompts, idx, hist>>

----------------------------------------------------------------------------
(* lib/repos.py: get_directory_owner and restore_ownership on a tree *)

\* a checkout: its root, a directory in it, a file in that and a file in
\* the root
TreeRoot == "d"
TreePaths == {"d", "d/a", "d/a/f", "d/g"}
TreeParent == ("d/a" :> "d") @@ ("d/a/f" :> "d/a") @@ ("d/g" :> "d")

\* (uid, gid) pairs: root, two users, and a user's file in root's group
Owners == {[uid |-> 0, gid |-> 0], [uid |-> 1000, gid |-> 1000],
           [uid |-> 1001, gid |-> 1001], [uid |-> 1000, gid |-> 0]}
RootOwner == [uid |-> 0, gid |-> 0]

\* a tree maps the paths that exist to their owners; every entry but the
\* root lies in a directory that exists
Trees ==
    {t \in UNION {[ps -> Owners] : ps \in SUBSET TreePaths} :
        /\ TreeRoot \in DOMAIN t
        /\ \A p \in DOMAIN t \ {TreeRoot} : TreeParent[p] \in DOMAIN t}

\* repos.py:333-353: the record is a set with the owner of the root, or
\* the empty set (None) when the root belongs to uid 0
get_directory_owner_of(tree) ==
    IF tree[TreeRoot].uid = 0 THEN {} ELSE {tree[TreeRoot]}

\* repos.py:356-385: os.walk visits the root and every directory below it
\* and chowns the directory, its subdirectories and its files
restore_ownership_ofRootOnly(tree, owner_info) ==
    IF owner_info = {} THEN tree
    ELSE [p \in DOMAIN tree |->
             IF p = TreeRoot THEN CHOOSE o \in owner_info : TRUE
                             ELSE tree[p]]
restore_ownership_of(tree, owner_info) ==
    IF owner_info = {} THEN tree
    ELSE [p \in DOMAIN tree |-> CHOOSE o \in owner_info : TRUE]

\* a build function: the record is taken (repos.py:432, 541, 681)
guard_capture ==
    /\ pc = "guard_capture"
    /\ host' = [host EXCEPT
                  !.original_owner = get_directory_owner_of(host.tree)]
    /\ pc' = "guard_write"
    /\ exc' = exc
    /\ Rest

\* a command run as root creates an entry in a directory that exists
guard_write ==
    /\ pc = "guard_write"
    /\ \E p \in TreePaths \ DOMAIN host.tree :
         /\ TreeParent[p] \in DOMAIN host.tree
         /\ host' = [host EXCEPT
                       !.tree = (p :> RootOwner) @@ @,
                       !.written = @ \cup {p}]
    /\ UNCHANGED <<pc, exc>>
    /\ Rest

\* the last command returned (repos.py:496-498, 587-589, 783-785)
guard_restore ==
    /\ pc = "guard_write"
    /\ host' = [host EXCEPT
                  !.before = host.tree,
                  !.tree = restore_ownership_of(host.tree,
                                                host.original_owner)]
    /\ pc' = "guard_done"
    /\ exc' = exc
    /\ Rest

InitGuard ==
    /\ cfg = [entry |-> "ownership_guard"]
    /\ pc = "guard_capture"
    /\ exc = "none"
    /\ \E t \in Trees :
         host = [tree |-> t, initial |-> t, before |-> t, written |-> {},
                 original_owner |-> {}]
    /\ Resting

NextGuard == guard_capture \/ guard_write \/ guard_restore

SpecGuard == InitGuard /\ [][NextGuard]_vars

\* C21: when the root of the tree belongs to a non-root uid, after the
\* capture, writes as root and the restore every entry of the tree, the
\* new ones included, has the (uid, gid) the root had at the capture; when
\* the root belongs to uid 0 there is no record and the restore changes
\* nothing.
C21_GuardRoundTrip ==
    pc = "guard_done" =>
        IF host.initial[TreeRoot].uid # 0
           THEN /\ host.original_owner = {host.initial[TreeRoot]}
                /\ \A p \in DOMAIN host.tree :
                      host.tree[p] = host.initial[TreeRoot]
                /\ DOMAIN host.tree = DOMAIN host.before
           ELSE /\ host.original_owner = {}
                /\ host.tree = host.before

\* a user's tree got two new entries from root and was restored
C21_Witness ==
    /\ pc = "guard_done"
    /\ host.initial[TreeRoot] = [uid |-> 1000, gid |-> 1000]
    /\ Cardinality(host.written) = 2
    /\ \E p \in host.written : host.before[p] = RootOwner
    /\ \A p \in host.written : host.tree[p] = [uid |-> 1000, gid |-> 1000]

----------------------------------------------------------------------------
(* lib/utils.py: run_command *)

\* longest run time, in seconds, of the external process
MaxDuration == 3

\* utils.py:34: timeout=None, no deadline
NoTimeout == -1

ReturnCodes == {0, 1, 2, 127}

\* utils.py:18-25 and 75-81
CommandResult(returncode) ==
    [success |-> returncode = 0, returncode |-> returncode]

\* utils.py:66-101: what run_command does with a process that ran for
\* duration seconds and, if it was not killed at the deadline, exited with
\* returncode: the exception raised ("none" for a normal return) and the
\* result returned
run_command_resultChecksFirst(check, timeout, returncode, duration) ==
    CASE check /\ returncode # 0 ->
             [exc |-> "CalledProcessError", result |-> {}]
      [] timeout # NoTimeout /\ duration > timeout ->
             [exc |-> "TimeoutExpired", result |-> {}]
      [] OTHER -> [exc |-> "none", result |-> {CommandResult(returncode)}]
run_command_result(check, timeout, returncode, duration) ==
    CASE timeout # NoTimeout /\ duration > timeout ->
             [exc |-> "TimeoutExpired", result |-> {}]
      [] check /\ returncode # 0 ->
             [exc |-> "CalledProcessError", result |-> {}]
      [] OTHER -> [exc |-> "none", result |-> {CommandResult(returncode)}]

\* utils.py:64-73: subprocess.run starts the process; a program that
\* cannot be started raises the OSError of the start
run_command_start ==
    /\ pc = "run_command"
    /\ \E started \in BOOLEAN :
         IF started
            THEN /\ host' = [host EXCEPT !.started = @ + 1]
                 /\ pc' = "run_command_wait"
                 /\ exc' = exc
            ELSE /\ host' = host
                 /\ pc' = "run_command_done"
                 /\ exc' = "OSError"
    /\ Rest

\* utils.py:66-101: the process ends or is killed at the deadline
run_command_wait ==
    /\ pc = "run_command_wait"
    /\ \E returncode \in ReturnCodes, duration \in 0..MaxDuration :
         LET r == run_command_result(cfg.check, cfg.timeout, returncode,
                                     duration)
         IN  /\ host' = [host EXCEPT !.returncode = returncode,
                                     !.duration = duration,
                                     !.result = r.result]
             /\ exc' = r.exc
    /\ pc' = "run_command_done"
    /\ Rest

InitRun ==
    /\ cfg \in [entry : {"run_command"}, check : BOOLEAN,
                timeout : {NoTimeout} \cup 1..(MaxDuration - 1)]
    /\ pc = "run_command"
    /\ exc = "none"
    /\ host = [started |-> 0, returncode |-> 0, duration |-> 0,
               result |-> {}]
    /\ Resting

NextRun == run_command_start \/ run_command_wait

SpecRun == InitRun /\ [][NextRun]_vars

\* C22: one call of run_command starts the process at most once; a
\* process that ran past the timeout always ends the call with
\* TimeoutExpired; otherwise a non-zero exit raises CalledProcessError
\* exactly when check is set, and in every other case the call returns a
\* CommandResult with the exit code and success = (returncode = 0).
C22_RunCommandContract ==
    /\ host.started <= 1
    /\ pc = "run_command_wait" => host.started = 1
    /\ (pc = "run_command_done" /\ host.started = 1) =>
          LET late == cfg.timeout # NoTimeout /\ host.duration > cfg.timeout
          IN  /\ late => (exc = "TimeoutExpired" /\ host.result = {})
              /\ (~late /\ cfg.check /\ host.returncode # 0) =>
                    (exc = "CalledProcessError" /\ host.result = {})
              /\ (~late /\ ~(cfg.check /\ host.returncode # 0)) =>
                    /\ exc = "none"
                    /\ host.result =
                          {[success |-> host.returncode = 0,
                            returncode |-> host.returncode]}

\* with check set, a process that failed after its deadline raised the
\* timeout error
C22_Witness ==
    /\ pc = "run_command_done"
    /\ cfg.check
    /\ cfg.timeout = 1
    /\ host.duration = 2
    /\ host.returncode = 1
    /\ exc = "TimeoutExpired"

----------------------------------------------------------------------------
(* lib/config.py: InstallerContext and create_context_from_args *)

\* paths as sequences of characters: "/opt", "/", "data" and ""
PathStrings == {<<"/", "o", "p", "t">>, <<"/">>, <<"d", "a", "t", "a">>,
                <<>>}

\* config.py:191-220 and args.py:28-36: the limits of a port number
MIN_PORT == 1
MAX_PORT == 65535
PortValues == {MIN_PORT - 1, MIN_PORT, MAX_PORT, MAX_PORT + 1}

\* the arguments create_context_from_args reads that the context's
\* invariant speaks about; an optional argument is a set with at most one
\* element, {} for None
ArgNamespaces ==
    [install_dir : PathStrings, data_dir : {{}} \cup {{p} : p \in PathStrings},
     db_port : PortValues, backend_port : {MIN_PORT, MAX_PORT + 1},
     frontend_port : {MIN_PORT - 1, MAX_PORT},
     db_password : {"", "SecurePass123"}, host_ip_ok : BOOLEAN]

\* str.startswith('/')
startswith_slash(path) == Len(path) >= 1 /\ path[1] = "/"

\* config.py:238: `args.db_password if args.db_password else
\* generate_random_password()`
password_of(arg) == IF arg # "" THEN arg ELSE "generated"

\* config.py:55-59: __post_init__
post_init_data_dir(data_dir, install_dir) ==
    IF data_dir = {} THEN install_dir ELSE CHOOSE p \in data_dir : TRUE

\* config.py:191-220: validate; TRUE iff no ValueError is raised.  The
\* user and database names are held at their defaults.
validate(c) ==
    /\ c.host_ip_ok
    /\ MIN_PORT <= c.backend_port /\ c.backend_port <= MAX_PORT
    /\ MIN_PORT <= c.frontend_port /\ c.frontend_port <= MAX_PORT
    /\ MIN_PORT <= c.db_port /\ c.db_port <= MAX_PORT
    /\ startswith_slash(c.install_dir)
    /\ c.db_password # ""

\* config.py:244-263: the context built from the arguments
InstallerContext(args) ==
    [install_dir |-> args.install_dir,
     data_dir |-> post_init_data_dir(args.data_dir, args.install_dir),
     db_port |-> args.db_port, backend_port |-> args.backend_port,
     frontend_port |-> args.frontend_port,
     db_password |-> password_of(args.db_password),
     host_ip_ok |-> args.host_ip_ok]

\* config.py:223-268
context_from_args ==
    /\ pc = "create_context_from_args"
    /\ LET c == InstallerContext(cfg.args)
       IN IF validate(c)
            THEN /\ host' = [host EXCEPT !.returned = {c}, !.context = {c}]
                 /\ exc' = exc
                 /\ pc' = "context_phases"
            ELSE /\ host' = host
                 /\ exc' = "ValueError"
                 /\ pc' = "context_done"
    /\ Rest

\* install.py:191-202: the phase functions get the context one after the
\* other; none of them assigns to a field of it
context_phase ==
    /\ pc = "context_phases"
    /\ host.phases < Len(PhaseOrder)
    /\ host' = [host EXCEPT !.phases = @ + 1]
    /\ UNCHANGED <<pc, exc>>
    /\ Rest

InitContext ==
    /\ cfg \in [entry : {"create_context_from_args"}, args : ArgNamespaces]
    /\ pc = "create_context_from_args"
    /\ exc = "none"
    /\ host = [returned |-> {}, context |-> {}, phases |-> 0]
    /\ Resting

NextContext == context_from_args \/ context_phase

SpecContext == InitContext /\ [][NextContext]_vars

----------------------------------------------------------------------------
(* uninstall.py: the uninstaller *)

\* uninstall.py:318: the services main walks over
services == <<"infinibay-backend", "infinibay-frontend">>

\* what the operator types at the confirmation prompt, as a sequence of
\* characters; {} stands for a closed standard input
Responses ==
    {<<"y">>, <<"Y">>, <<"y", "e", "s">>, <<"Y", "e", "S">>, <<"n">>, <<>>,
     <<"y", "e">>}

\* str.lower() on the characters the responses are made of
lower_char(c) ==
    CASE c = "Y" -> "y"
      [] c = "E" -> "e"
      [] c = "S" -> "s"
      [] c = "N" -> "n"
      [] OTHER -> c

lower(s) == [k \in 1..Len(s) |-> lower_char(s[k])]

\* uninstall.py:284: a variant that takes the empty answer for a yes
confirm_responseDefaultYes(response) ==
    lower(response) \in {<<"y">>, <<"y", "e", "s">>, <<>>}

\* uninstall.py:284: `response.lower() in ['y', 'yes']`
confirm_response(response) == lower(response) \in {<<"y">>, <<"y", "e", "s">>}

\* uninstall.py:265-284: confirm_uninstall for an answer that was read
confirm_uninstall(args) ==
    args.yes \/ \E response \in args.response : confirm_response(response)

\* uninstall.py:330 and 342: a variant that removes the files unless asked
\* to keep them
files_requestedAlways(args) == TRUE

\* uninstall.py:330 and 342: `if args.remove_files`
files_requested(args) == args.remove_files

\* uninstall.py:336: `if args.remove_database`
database_requested(args) == args.remove_database

\* the resources of the host the uninstaller acts on
ResourceFields ==
    {"listed", "units", "running", "enabled", "install_dir", "cargo",
     "rustup", "db", "role"}

Resources(h) == [f \in ResourceFields |-> h[f]]

InstalledResources ==
    [listed |-> Range(services), units |-> Range(services),
     running |-> Range(services), enabled |-> Range(services),
     install_dir |-> TRUE, cargo |-> TRUE, rustup |-> TRUE, db |-> TRUE,
     role |-> TRUE]

\* hosts an uninstaller can be started on: a complete installation, one
\* whose frontend unit was never written, one with the units only and a
\* host without any trace of an installation
UninstallHosts ==
    {InstalledResources,
     [InstalledResources EXCEPT !.listed = {services[1]},
                                !.units = {services[1]},
                                !.running = {}, !.enabled = {services[1]},
                                !.rustup = FALSE],
     [InstalledResources EXCEPT !.install_dir = FALSE, !.cargo = FALSE,
                                !.rustup = FALSE, !.db = FALSE,
                                !.role = FALSE],
     [listed |-> {}, units |-> {}, running |-> {}, enabled |-> {},
      install_dir |-> FALSE, cargo |-> FALSE, rustup |-> FALSE,
      db |-> FALSE, role |-> FALSE]}

\* uninstall.py:98-119: the mutations run_command hands to the shell; with
\* dry_run the command is logged only
run_command_issues(dry_run, command) ==
    IF dry_run THEN <<>> ELSE <<command>>

\* uninstall.py:287-312: main up to the confirmation
uninstall_main ==
    /\ pc = "uninstall_main"
    /\ IF ~cfg.is_root
         THEN /\ pc' = "uninstall_done"
              /\ exc' = "SystemExit"
              /\ host' = [host EXCEPT !.rc = 1]
         ELSE IF ~cfg.dry_run /\ ~cfg.yes /\ cfg.response = {}
         THEN /\ pc' = "uninstall_done"
              /\ exc' = "EOFError"
              /\ host' = host
         ELSE IF ~cfg.dry_run /\ ~confirm_uninstall(cfg)
         THEN /\ pc' = "uninstall_done"
              /\ exc' = exc
              /\ host' = [host EXCEPT !.rc = 0]
         ELSE /\ pc' = "uninstall_stop"
              /\ exc' = exc
              /\ host' = [host EXCEPT !.confirmed = TRUE]
    /\ Rest

\* uninstall.py:122-144 called from 319-320: one service is stopped and
\* disabled when `systemctl list-unit-files` shows it.  Both commands run
\* with check=False; each may or may not take effect.
stop_and_disable_service ==
    /\ pc = "uninstall_stop"
    /\ LET service == services[host.i]
           last == host.i = Len(services)
       IN /\ \E stopped \in BOOLEAN, disabled \in BOOLEAN :
               host' =
                 IF service \notin host.listed
                   THEN [host EXCEPT !.i = IF last THEN 1 ELSE @ + 1]
                   ELSE [host EXCEPT
                           !.i = IF last THEN 1 ELSE @ + 1,
                           !.log = @ \o
                             run_command_issues(cfg.dry_run,
                                                <<"stop", service>>) \o
                             run_command_issues(cfg.dry_run,
                                                <<"disable", service>>),
                           !.running =
                             IF ~cfg.dry_run /\ stopped
                               THEN @ \ {service} ELSE @,
                           !.enabled =
                             IF ~cfg.dry_run /\ disabled
                               THEN @ \ {service} ELSE @]
          /\ pc' = IF last THEN "uninstall_unit" ELSE pc
    /\ exc' = exc
    /\ Rest

\* uninstall.py:147-167 called from 323-324: the unit file of one service
\* is removed when it exists; a failing os.remove is logged and ignored
remove_service_file ==
    /\ pc = "uninstall_unit"
    /\ LET service == services[host.i]
           last == host.i = Len(services)
       IN /\ \E removed \in BOOLEAN :
               host' =
                 IF service \notin host.units \/ cfg.dry_run
                   THEN [host EXCEPT !.i = IF last THEN 1 ELSE @ + 1]
                   ELSE [host EXCEPT
                           !.i = IF last THEN 1 ELSE @ + 1,
                           !.log = Append(@, <<"remove_unit", service>>),
                           !.units = IF removed THEN @ \ {service} ELSE @]
          /\ pc' = IF last THEN "uninstall_reload" ELSE pc
    /\ exc' = exc
    /\ Rest

\* uninstall.py:170-173 called from 327
reload_systemd ==
    /\ pc = "uninstall_reload"
    /\ host' = [host EXCEPT
                  !.log = @ \o run_command_issues(cfg.dry_run,
                                                  <<"daemon-reload">>)]
    /\ pc' = "uninstall_files"
    /\ exc' = exc
    /\ Rest

\* uninstall.py:176-195 called from 330-333
remove_installation_directory ==
    /\ pc = "uninstall_files"
    /\ \E removed \in BOOLEAN :
          host' =
            IF files_requested(cfg) /\ host.install_dir /\ ~cfg.dry_run
              THEN [host EXCEPT
                      !.log = Append(@, <<"rmtree", "install_dir">>),
                      !.install_dir = ~removed]
              ELSE host
    /\ pc' = "uninstall_database"
    /\ exc' = exc
    /\ Rest

\* uninstall.py:198-218 called from 336-339: both DROP statements run with
\* check=False
remove_database ==
    /\ pc = "uninstall_database"
    /\ \E dropped_db \in BOOLEAN, dropped_user \in BOOLEAN :
          host' =
            IF database_requested(cfg)
              THEN [host EXCEPT
                      !.log = @ \o
                        run_command_issues(cfg.dry_run,
                                           <<"drop", "database">>) \o
                        run_command_issues(cfg.dry_run, <<"drop", "user">>),
                      !.db = IF ~cfg.dry_run /\ dropped_db THEN FALSE ELSE @,
                      !.role =
                        IF ~cfg.dry_run /\ dropped_user /\ (dropped_db \/ ~host.db)
                          THEN FALSE ELSE @]
              ELSE host
    /\ pc' = "uninstall_rustup"
    /\ exc' = exc
    /\ Rest

\* uninstall.py:221-262 called from 342-345: ~/.cargo and ~/.rustup are
\* removed in this order; an exception ends the function
remove_rustup ==
    /\ pc = "uninstall_rustup"
    /\ \E cargo_removed \in BOOLEAN, rustup_removed \in BOOLEAN :
          host' =
            IF files_requested(cfg) /\ (host.cargo \/ host.rustup)
               /\ ~cfg.dry_run
              THEN [host EXCEPT
                      !.log = @ \o
                        (IF host.cargo THEN <<<<"rmtree", "cargo">>>>
                                       ELSE <<>>) \o
                        (IF host.rustup /\ (host.cargo => cargo_removed)
                           THEN <<<<"rmtree", "rustup">>>> ELSE <<>>),
                      !.cargo = @ /\ ~cargo_removed,
                      !.rustup =
                        @ /\ ~((host.cargo => cargo_removed)
                               /\ rustup_removed),
                      !.rc = 0]
              ELSE [host EXCEPT !.rc = 0]
    /\ pc' = "uninstall_done"
    /\ exc' = exc
    /\ Rest

InitUninstall ==
    /\ cfg \in [entry : {"uninstall"}, is_root : BOOLEAN,
                remove_files : BOOLEAN, remove_database : BOOLEAN,
                dry_run : BOOLEAN, yes : BOOLEAN,
                response : {{}} \cup {{r} : r \in Responses}]
    /\ cfg.yes => cfg.response = {}
    /\ pc = "uninstall_main"
    /\ exc = "none"
    /\ \E r \in UninstallHosts :
          host = [listed |-> r.listed, units |-> r.units,
                  running |-> r.running, enabled |-> r.enabled,
                  install_dir |-> r.install_dir, cargo |-> r.cargo,
                  rustup |-> r.rustup, db |-> r.db, role |-> r.role,
                  initial |-> r, log |-> <<>>, i |-> 1, rc |-> -1,
                  confirmed |-> FALSE]
    /\ Resting

NextUninstall ==
    \/ uninstall_main
    \/ stop_and_disable_service
    \/ remove_service_file
    \/ reload_systemd
    \/ remove_installation_directory
    \/ remove_database
    \/ remove_rustup

SpecUninstall == InitUninstall /\ [][NextUninstall]_vars

\* the mutations of a run without --remove-files and --remove-database,
\* in main's order
ServiceMutations ==
    <<<<"stop", services[1]>>, <<"disable", services[1]>>,
      <<"stop", services[2]>>, <<"disable", services[2]>>,
      <<"remove_unit", services[1]>>, <<"remove_unit", services[2]>>,
      <<"daemon-reload">>>>

MutationRank(m) ==
    CHOOSE k \in 1..Len(ServiceMutations) : ServiceMutations[k] = m

\* C24: the installation directory and the Rust toolchain are removed
\* only with --remove-files, the database and the role are dropped only
\* with --remove-database, and with neither flag the mutations are the
\* stop and disable of the two services, the removal of their unit files
\* and the reload of the service manager, in this order.
C24_RemovalsAreOptIn ==
    /\ (\E k \in 1..Len(host.log) : host.log[k][1] = "rmtree")
          => cfg.remove_files
    /\ (\E k \in 1..Len(host.log) : host.log[k][1] = "drop")
          => cfg.remove_database
    /\ ~host.install_dir /\ host.initial.install_dir => cfg.remove_files
    /\ ~host.cargo /\ host.initial.cargo => cfg.remove_files
    /\ ~host.rustup /\ host.initial.rustup => cfg.remove_files
    /\ ~host.db /\ host.initial.db => cfg.remove_database
    /\ ~host.role /\ host.initial.role => cfg.remove_database
    /\ ~cfg.remove_files /\ ~cfg.remove_database =>
          /\ \A k \in 1..Len(host.log) :
                \E n \in 1..Len(ServiceMutations) :
                   ServiceMutations[n] = host.log[k]
          /\ \A k \in 1..Len(host.log), n \in 1..Len(host.log) :
                k < n => MutationRank(host.log[k]) < MutationRank(host.log[n])

\* a confirmed run without either flag on a complete installation has
\* ended with all seven service mutations and nothing else
C24_Witness ==
    /\ pc = "uninstall_done"
    /\ ~cfg.remove_files /\ ~cfg.remove_database
    /\ host.log = ServiceMutations
    /\ host.install_dir /\ host.db /\ host.cargo

\* C25: a mutating action is executed only when dry-run is off and either
\* --yes was given or the operator answered y or yes; with --dry-run
\* nothing is stopped, removed or dropped.
C25_MutationsNeedConsent ==
    /\ host.log # <<>> =>
          /\ ~cfg.dry_run
          /\ \/ cfg.yes
             \/ \E response \in cfg.response :
                   lower(response) \in {<<"y">>, <<"y", "e", "s">>}
    /\ Resources(host) # host.initial => host.log # <<>>
    /\ cfg.dry_run => Resources(host) = host.initial /\ host.log = <<>>

\* the operator typed "YeS" without --yes and the services were stopped
C25_Witness ==
    /\ pc = "uninstall_done"
    /\ ~cfg.yes /\ cfg.response = {<<"Y", "e", "S">>}
    /\ host.log # <<>>
    /\ host.running = {}

----------------------------------------------------------------------------
(* lib/repos.py: restore_ownership, one directory of the walk at a time *)

\* the directories of a tree in the order os.walk yields them (top-down)
WalkOrder == <<"d", "d/a">>

\* the entries os.walk lists for a directory: its subdirectories and files
Listed(tree, root) ==
    {p \in DOMAIN tree \ {TreeRoot} : TreeParent[p] = root}

\* os.chown on the entries ps: the ones in failing raise, the others get
\* the owner
chown(tree, ps, owner, failing) ==
    [p \in DOMAIN tree |-> IF p \in ps \ failing THEN owner ELSE tree[p]]

\* repos.py:356-367: no record, no walk
restore_ownership_begin ==
    /\ pc = "restore_ownership"
    /\ pc' = IF host.owner_info = {} THEN "restore_done" ELSE "restore_walk"
    /\ UNCHANGED <<exc, host>>
    /\ Rest

\* repos.py:369-385: one iteration of `for root, dirs, files in os.walk`.
\* The chown of root stands directly in the outer try: when it raises,
\* the handler logs a warning and the function returns.  The chowns of the
\* listed entries each have their own `except Exception: pass`.
restore_ownership_visit ==
    /\ pc = "restore_walk"
    /\ LET root == WalkOrder[host.at]
           owner == CHOOSE o \in host.owner_info : TRUE
           last == host.at = Len(WalkOrder)
       IN IF root \notin DOMAIN host.tree
            THEN /\ host' = [host EXCEPT !.at = IF last THEN @ ELSE @ + 1]
                 /\ pc' = IF last THEN "restore_done" ELSE pc
            ELSE IF root \in cfg.failing
            THEN /\ host' = [host EXCEPT !.warned = TRUE]
                 /\ pc' = "restore_done"
            ELSE /\ host' = [host EXCEPT
                       !.tree = chown(@, {root} \cup Listed(@, root), owner,
                                      cfg.failing),
                       !.at = IF last THEN @ ELSE @ + 1]
                 /\ pc' = IF last THEN "restore_done" ELSE pc
    /\ exc' = exc
    /\ Rest

InitRestore ==
    /\ \E t \in Trees :
         /\ cfg \in [entry : {"restore_ownership"},
                     failing : {{}} \cup {{p} : p \in DOMAIN t}]
         /\ host \in [tree : {t}, initial : {t},
                      owner_info : {{}} \cup {{o} : o \in Owners \ {RootOwner}},
                      at : {1}, warned : {FALSE}]
    /\ pc = "restore_ownership"
    /\ exc = "none"
    /\ Resting

NextRestore == restore_ownership_begin \/ restore_ownership_visit

SpecRestore == InitRestore /\ [][NextRestore]_vars

\* C33: a chown that fails for one entry, file or directory, does not stop
\* the walk: when restore_ownership has returned every other entry of the
\* tree has the recorded owner, and restore_ownership raised nothing.
C33_OneFailureIsLocal ==
    /\ exc = "none"
    /\ (pc = "restore_done" /\ host.owner_info # {}) =>
          \A p \in DOMAIN host.tree \ cfg.failing :
              host.tree[p] \in host.owner_info

====
